---- MODULE Spec2Model ----
(***************************************************************************)
(* TypeFlow typing engine (engine.js): the TypingEngine session state      *)
(* machine together with the LocalHistoryStorage list it persists to.      *)
(*                                                                         *)
(* Conventions                                                             *)
(*  - a JS object used as a map (errorMap, confusions) is a function whose *)
(*    domain is the set of its own property names;                         *)
(*  - times are integer milliseconds of performance.now();                 *)
(*  - a number printed with toFixed(1) is kept in tenths (66.7 is 667);    *)
(*  - a nullable value is a sequence of length 0 (null) or 1.              *)
(***************************************************************************)
EXTENDS Integers, Sequences, FiniteSets, TLC

\* ---------------------------------------------------------------- bounds
\* MaxNow caps the clock, MaxHistory the stored list, MaxConfusions the sum
\* of the confusion counts (which no operation after construction resets,
\* so it also caps the incorrect keystrokes of a run)
MaxNow == 5001
MaxHistory == 2
MaxConfusions == 2
\* MaxLimit caps the limit handed to list()
MaxLimit == 3
\* MaxSamples caps the latency samples given to latencySummary directly
MaxSamples == 3
\* inputs of generateSuggestions: sessions in the history argument, entries
\* of one error map, the count of one entry, and the max argument
MaxSessions == 2
MaxKeys == 2
MaxCount == 2
MaxSuggest == 3

\* ------------------------------------------------------- input alphabets
\* texts handed to loadText, keys handed to handleKey, clock advances
Texts == { <<>>, <<"a">>, <<"a", "b">> }
Keys == { "a", "b", "x" }
Gaps == { 0, 4999, 5000 }

\* ------------------------------------------------------------ JS values
Undefined == "undefined"
Arrow == "→"
EmptyMap == [k \in {} |-> 0]
Null == <<>>
Some(v) == <<v>>
Num(n) == <<"num", n>>
Infinity == <<"Infinity">>
JsonNull == <<"null">>
LatencyCeiling == 5000
\* MaxInvocations caps the networkFirst calls of one run of the service worker
MaxInvocations == 2
\* the API requests the service worker sees
Requests == { "/api/a", "/api/b" }
\* a page navigation, and every url the fetch listener sees
NavigateUrl == "/"
EventUrls == Requests \cup { NavigateUrl }
\* MaxEvents caps the fetch events the listener answers in one run
MaxEvents == 3
\* MaxStored caps the sessions completed in one run of the page, and
\* MaxVaried those of them that are not the slow filler session
MaxStored == 201
MaxVaried == 2
\* the users of the sample server; MaxPosts caps the records the first of
\* them posts in one run, MaxOtherPosts those of every other
Users == { "a", "b" }
MaxPosts == 201
MaxOtherPosts == 2
\* MaxTyped caps the keystrokes passed to the engine in one run of the
\* debounce, and MaxClock the time of its last task
MaxTyped == 4
MaxClock == 2800

VARIABLES
  testText,      \* this.testText
  cursor,        \* this.cursor
  errors,        \* this.errors
  errorMap,      \* this.errorMap
  timestamps,    \* this.timestamps
  sessionStart,  \* this.sessionStart (Null before the first load)
  latencies,     \* this.latencies
  confusions,    \* this.confusions
  now,           \* performance.now() as last read
  stored,        \* the list held in localStorage under the history key
  keyLog,        \* arguments of the onKey calls since the last loadText
  saves,         \* storage.saveSession calls since the last loadText
  completes,     \* onComplete calls since the last loadText
  lastRecord,    \* record handed to the last onComplete (Null if none)
  storedAtLoad,  \* length of the stored list at the last loadText
  calls,         \* callbacks and collaborator calls made by the last operation
  rendered,      \* argument of the last onUpdate call (Null if none)
  held,          \* the record last handed to onComplete, as its holder
                 \* reads it now (Null if none)
  heldAtCall,    \* the same record as it was when onComplete was called
  heldShares,    \* held.errorMap is still the object this.errorMap
  itemKind,      \* what localStorage holds under the history key
  writable,      \* localStorage.setItem succeeds
  threw,         \* the last operation ended with an exception
  appended,      \* entries saved since the last clear(), newest first
  storeOp,       \* the last call made on the store by its caller
  returned,      \* what that call returned (Null if nothing)
  historySessions,   \* the array the caller hands to generateSuggestions
  currentErrorMap,   \* the map it hands over with it (Null if none)
  suggested,     \* max and result of the last generateSuggestions call on
                 \* these inputs (Null if none)
  summary,       \* what the last latencySummary() call returned, wrapped
                 \* (Null if there was no call)
  drillActive,   \* app.js: let drillActive
  previousText,  \* app.js: let previousText (Null, or the text as characters)
  suggestionList,    \* data-char of the <li> elements of the suggestion list
  textAtStartDrill,  \* engine text when the running drill was started
  engineCall,    \* the engine method the last page event called, with the
                 \* key it handed over (Null if it called none)
  apiCache,      \* sw.js: the API cache, request -> response (Null if none)
  invocations,   \* sw.js: the networkFirst calls made so far, each with the
                 \* await it stands at and what it has seen
  puts,          \* sw.js: cache.put calls started and not yet finished
  inFlight,      \* sw.js: the inFlight map, url -> promise (Null if none); a
                 \* promise is named by the index of its invocation
  answered,      \* sw.js: the respondWith calls made so far, each with the
                 \* url and the promise its handler hands back
  cacheNames,    \* sw.js: the names of the caches that exist
  activation,    \* sw.js: the activate handler: the await it stands at, the
                 \* keys it read, the deletes it awaits and those done
  bestToast,     \* app.js: what the last handleSessionComplete found: the
                 \* best wpm before, and whether it raised 'New Personal
                 \* Best!' (Null before the first)
  users,         \* server.js: users, username -> passwordHash (Null if none)
  serverSessions,    \* server.js: sessions, username -> list (Null if none)
  tokens,        \* server.js: the users a token was issued for
  response,      \* server.js: the answer to the last request
  posted,        \* records each user's token has had accepted so far
  given,         \* the password each user gave at signup (Null if none)
  debounceWait,  \* the delay of the page's script: 550 in app.js, 300 in
                 \* app-optimized.js (Null before the script has run)
  suggestionRefreshTimer,  \* app.js: suggestionRefreshTimer, the id the last
                 \* setTimeout returned (timeout in debounce; Null at first)
  timers,        \* the timeouts of the window that are set and not cleared
  clock,         \* the time of the task that ran last, in ms
  typed,         \* the times of the keystrokes passed to the engine
  refreshed      \* the refreshSuggestions calls made by timeouts, each with
                 \* the id of the timeout and the time

engineVars == <<testText, cursor, errors, errorMap, timestamps, sessionStart,
                latencies, confusions>>
vars == <<testText, cursor, errors, errorMap, timestamps, sessionStart,
          latencies, confusions, now, stored, keyLog, saves, completes,
          lastRecord, storedAtLoad, calls, rendered, held, heldAtCall,
          heldShares, itemKind, writable, threw, appended, storeOp, returned,
          historySessions, currentErrorMap, suggested, summary,
          drillActive, previousText, suggestionList, textAtStartDrill,
          engineCall, apiCache, invocations, puts, inFlight, answered,
          cacheNames, activation, bestToast, users, serverSessions, tokens,
          response, posted, given, debounceWait, suggestionRefreshTimer,
          timers, clock, typed, refreshed>>

holderVars == <<held, heldAtCall, heldShares>>
callerVars == <<storeOp, returned>>
suggestVars == <<historySessions, currentErrorMap, suggested>>
pageVars == <<drillActive, previousText, suggestionList, textAtStartDrill,
              engineCall>>
workerVars == <<apiCache, invocations, puts>>
listenerVars == <<inFlight, answered>>
activateVars == <<cacheNames, activation>>
serverVars == <<users, serverSessions, tokens, response, posted, given>>
timerVars == <<debounceWait, suggestionRefreshTimer, timers, clock, typed,
               refreshed>>
restVars == <<bestToast, serverVars, timerVars>>
outerVars == <<listenerVars, activateVars, restVars>>
appVars == <<suggestVars, summary, pageVars, workerVars, outerVars>>

\* ------------------------------------------------------------- helpers
Last(s) == s[Len(s)]
Min(a, b) == IF a < b THEN a ELSE b

RECURSIVE SumSeq(_)
SumSeq(s) == IF s = <<>> THEN 0 ELSE s[1] + SumSeq(Tail(s))

RECURSIVE MapSum(_)
MapSum(m) ==
  IF DOMAIN m = {} THEN 0
  ELSE LET k == CHOOSE x \in DOMAIN m : TRUE
       IN m[k] + MapSum([y \in DOMAIN m \ {k} |-> m[y]])

\* Array.prototype.sort((a,b)=>a-b) on a copy
RECURSIVE Insert(_, _)
Insert(x, s) ==
  IF s = <<>> THEN <<x>>
  ELSE IF x < s[1] THEN <<x>> \o s
  ELSE <<s[1]>> \o Insert(x, Tail(s))

RECURSIVE SortAsc(_)
SortAsc(s) == IF s = <<>> THEN <<>> ELSE Insert(s[1], SortAsc(Tail(s)))

\* +(n/d*10).toFixed(0) for non-negative n, d > 0: nearest integer, half up
RoundDiv(n, d) == (2 * n + d) \div (2 * d)

\* variant: obj[k] = obj[k] || 1 (a repeated miss is not counted)
BumpOnce(m, k) == m @@ (k :> 1)

\* obj[k] = (obj[k] || 0) + 1
Bump(m, k) ==
  IF k \in DOMAIN m THEN [m EXCEPT ![k] = @ + 1] ELSE m @@ (k :> 1)

\* ------------------------------------------------------------- metrics
expectedChar == IF cursor < Len(testText) THEN testText[cursor + 1] ELSE Undefined

\* variant: the percentage is cut, not rounded, to one decimal
AccuracyCut(c, e) == IF c + e = 0 THEN 1000 ELSE (c * 1000) \div (c + e)

\* accuracy(), in tenths of a percent point
Accuracy(c, e) == IF c + e = 0 THEN 1000 ELSE RoundDiv(c * 1000, c + e)
accuracy == Accuracy(cursor, errors)

\* wpm(): Math.round(words / minutes || 0); a zero elapsed time divides a
\* positive word count by zero, and Infinity is truthy
Wpm(ts, c, start) ==
  IF ts = <<>> THEN Num(0)
  ELSE LET elapsedMs == Last(ts) - start[1]
       IN IF elapsedMs = 0
          THEN (IF c = 0 THEN Num(0) ELSE Infinity)
          ELSE Num(RoundDiv(c * 12000, elapsedMs))

wpm == Wpm(timestamps, cursor, sessionStart)

\* emitUpdate(): the argument handed to onUpdate
\* variant: i <= this.cursor ? 'correct' : 'pending'
EmitUpdateInclusive(text, c) ==
  [ chars  |-> [ i \in 1..Len(text) |->
                   [ ch     |-> text[i],
                     status |-> IF i - 1 <= c THEN "correct" ELSE "pending" ] ],
    cursor |-> c,
    total  |-> Len(text) ]

EmitUpdate(text, c) ==
  [ chars  |-> [ i \in 1..Len(text) |->
                   [ ch     |-> text[i],
                     status |-> IF i - 1 < c THEN "correct"
                                ELSE IF i - 1 = c THEN "current"
                                ELSE "pending" ] ],
    cursor |-> c,
    total  |-> Len(text) ]

\* variant: nearest rank, sorted[ceil(p * n) - 1]
PercentileNearestRank(sorted, num, den) ==
  sorted[IF (num * Len(sorted)) % den = 0
         THEN (num * Len(sorted)) \div den
         ELSE (num * Len(sorted)) \div den + 1]

\* idx(p): sorted[Math.min(sorted.length - 1, Math.floor(p * sorted.length))]
Percentile(sorted, num, den) ==
  sorted[Min(Len(sorted) - 1, (num * Len(sorted)) \div den) + 1]

\* +(n / d).toFixed(1), in tenths
ToFixed1(n, d) == RoundDiv(n * 10, d)

\* latencySummary() over samples given in 1/unit of a millisecond
SummaryIn(lat, unit) ==
  IF lat = <<>> THEN Null
  ELSE LET sorted == SortAsc(lat)
       IN Some([count |-> Len(sorted),
                avg   |-> ToFixed1(SumSeq(sorted), Len(sorted) * unit),
                p50   |-> ToFixed1(Percentile(sorted, 50, 100), unit),
                p90   |-> ToFixed1(Percentile(sorted, 90, 100), unit),
                p99   |-> ToFixed1(Percentile(sorted, 99, 100), unit)])

\* latencySummary() over samples in whole milliseconds
LatencySummary(lat) == SummaryIn(lat, 1)

\* ------------------------------------------------- LocalHistoryStorage
\* JSON.stringify followed by JSON.parse: a non-finite number becomes null
JsonNumber(v) == IF v = Infinity THEN JsonNull ELSE v
JsonRoundTrip(r) == [r EXCEPT !.wpm = JsonNumber(@)]

\* saveSession(entry): list.unshift(entry) and write back
SaveSession(list, entry) == <<JsonRoundTrip(entry)>> \o list

\* The item under the key is absent, text that JSON.parse rejects, JSON for
\* a falsy value (null, 0, "", false), JSON for an object, for a non-zero
\* number, for the non-empty string CorruptString, or JSON for an array
\* (then `stored` is that array; otherwise `stored` is empty).
CorruptKinds == { "unparsable", "falsy", "object", "number", "string" }
ItemKinds == { "absent", "array" } \cup CorruptKinds
CorruptString == << "x", "y" >>

\* Array.prototype.slice(0, limit) for limit >= 0
Slice(list, limit) == SubSeq(list, 1, Min(limit, Len(list)))

\* _load(): try { return JSON.parse(getItem(key)) || []; } catch { return []; }
Loaded ==
  CASE itemKind = "array"  -> <<"array", stored>>
    [] itemKind = "object" -> <<"object">>
    [] itemKind = "number" -> <<"number">>
    [] itemKind = "string" -> <<"string", CorruptString>>
    [] OTHER               -> <<"array", <<>> >>

\* list.unshift(entry) is a TypeError unless _load() gave an array;
\* _save throws when setItem does
SaveThrows == Loaded[1] # "array" \/ ~writable

\* saveSession(entry) on the store, returning normally or throwing
StoreSave(entry) ==
  IF SaveThrows
  THEN UNCHANGED <<stored, itemKind, appended>>
  ELSE /\ stored' = SaveSession(Loaded[2], entry)
       /\ itemKind' = "array"
       /\ appended' = <<entry>> \o appended

\* list(limit): this._load().slice(0, limit); slice exists on arrays and
\* strings only
ListThrows == Loaded[1] \in { "object", "number" }
ListResult(limit) == <<Loaded[1], Slice(Loaded[2], limit)>>

\* JSON.stringify(value, null, 2): the text, kept as the tagged value it
\* denotes; every record of an array is written by JSON's rules
JsonStringify(v) ==
  IF v[1] = "array"
  THEN <<"text", <<"array", [i \in 1..Len(v[2]) |-> JsonRoundTrip(v[2][i])]>> >>
  ELSE <<"text", v>>

\* JSON.parse(text)
JsonParse(text) == text[2]

\* variant: the list is written oldest first
ExportOldestFirst ==
  JsonStringify(<<"array", [i \in 1..Len(stored) |->
                              stored[Len(stored) + 1 - i]]>>)

\* export(): JSON.stringify(this._load(), null, 2)
ExportResult == JsonStringify(Loaded)

\* --------------------------------------------------------- TypingEngine
\* const correct = key === expected
Correct(key) == key = expectedChar

\* this.timestamps.at(-1) ?? this.sessionStart, then
\* lastCorrectTs ? now - lastCorrectTs : 0
LastCorrectTs ==
  IF timestamps # <<>> THEN Some(Last(timestamps)) ELSE sessionStart

Interval(t) ==
  IF LastCorrectTs = Null \/ LastCorrectTs = Some(0) THEN 0
  ELSE t - LastCorrectTs[1]

\* if (interval && interval < 5000)
RecordsLatency(interval) == interval # 0 /\ interval < LatencyCeiling

\* variant: the cursor advances on every keystroke
NextCursorAlways(correct) == cursor + 1

\* if (correct) this.cursor++
NextCursor(correct) == IF correct THEN cursor + 1 ELSE cursor

\* else this.errors++
NextErrors(correct) == IF correct THEN errors ELSE errors + 1

\* this.errorMap[expected] = (this.errorMap[expected] || 0) + 1
NextErrorMap(correct, expected) ==
  IF correct THEN errorMap ELSE Bump(errorMap, expected)

\* const pair = expected + Arrow + key; this.confusions[pair] = ... + 1
Pair(expected, key) == expected \o Arrow \o key

NextConfusions(correct, expected, key) ==
  IF correct THEN confusions ELSE Bump(confusions, Pair(expected, key))

\* this.timestamps.push(now)
NextTimestamps(correct, t) ==
  IF correct THEN Append(timestamps, t) ELSE timestamps

\* this.latencies.push(interval)
NextLatencies(correct, interval) ==
  IF correct /\ RecordsLatency(interval) THEN Append(latencies, interval)
  ELSE latencies

\* variant: finished = this.cursor > this.testText.length
FinishedPast(c) == c > Len(testText)

\* const finished = this.cursor >= this.testText.length
Finished(c) == c >= Len(testText)

\* variant: the session is persisted before the update and stats callbacks
KeyCallsPersistFirst(finished) ==
  IF finished
  THEN <<"onKey", "saveSession", "onComplete", "onUpdate", "onStats">>
  ELSE <<"onKey", "onUpdate", "onStats">>

\* this.onKey?.(..); this.emitUpdate(); this.emitStats();
\* if (finished) this.persistSession(), which saves and then calls onComplete
KeyCalls(finished) ==
  IF finished
  THEN <<"onKey", "onUpdate", "onStats", "saveSession", "onComplete">>
  ELSE <<"onKey", "onUpdate", "onStats">>

\* the calls made when storage.saveSession(record) throws: persistSession
\* has no try/catch, so onComplete is not reached
KeyCallsUntilThrow == <<"onKey", "onUpdate", "onStats", "saveSession">>

\* persistSession(): the record literal; Date.now() and the ISO timestamp
\* are the instant t of the call
Record(c, e, em, ts, lat, conf, t) ==
  [ id         |-> t,
    timestamp  |-> <<"iso", t>>,
    length     |-> Len(testText),
    errors     |-> e,
    accuracy   |-> Accuracy(c, e),
    wpm        |-> Wpm(ts, c, sessionStart),
    errorMap   |-> em,
    latency    |-> LatencySummary(lat),
    confusions |-> conf ]

Init ==
  /\ testText = <<>>
  /\ cursor = 0
  /\ errors = 0
  /\ errorMap = EmptyMap
  /\ timestamps = <<>>
  /\ sessionStart = Null
  /\ latencies = <<>>
  /\ confusions = EmptyMap
  /\ now = 1
  /\ stored = <<>>
  /\ keyLog = <<>>
  /\ saves = 0
  /\ completes = 0
  /\ lastRecord = Null
  /\ storedAtLoad = 0
  /\ calls = <<>>
  /\ rendered = Null
  /\ held = Null
  /\ heldAtCall = Null
  /\ heldShares = FALSE
  /\ itemKind = "absent"
  /\ writable = TRUE
  /\ threw = FALSE
  /\ appended = <<>>
  /\ storeOp = Null
  /\ returned = Null
  /\ historySessions = <<>>
  /\ currentErrorMap = Null
  /\ suggested = Null
  /\ summary = Null
  /\ drillActive = FALSE
  /\ previousText = Null
  /\ suggestionList = <<>>
  /\ textAtStartDrill = Null
  /\ engineCall = Null
  /\ apiCache = [request \in Requests |-> Null]
  /\ invocations = <<>>
  /\ puts = {}
  /\ inFlight = [url \in EventUrls |-> Null]
  /\ answered = <<>>
  /\ cacheNames = {}
  /\ activation = [pc |-> "idle", keys |-> {}, deleting |-> {},
                   deleted |-> {}]
  /\ bestToast = Null
  /\ users = [u \in Users |-> Null]
  /\ serverSessions = [u \in Users |-> Null]
  /\ tokens = {}
  /\ response = [status |-> 0, error |-> "", token |-> "", sessions |-> <<>>]
  /\ posted = [u \in Users |-> 0]
  /\ given = [u \in Users |-> Null]
  /\ debounceWait = Null
  /\ suggestionRefreshTimer = Null
  /\ timers = {}
  /\ clock = 0
  /\ typed = <<>>
  /\ refreshed = <<>>

\* loadText(text) called at time t
LoadText(text, t) ==
  /\ now' = t
  /\ testText' = text
  /\ cursor' = 0
  /\ errors' = 0
  /\ errorMap' = EmptyMap
  /\ timestamps' = <<>>
  /\ sessionStart' = Some(t)
  /\ UNCHANGED <<latencies, confusions, stored, itemKind, writable, appended>>
  /\ threw' = FALSE
  /\ keyLog' = <<>>
  /\ saves' = 0
  /\ completes' = 0
  /\ lastRecord' = Null
  /\ storedAtLoad' = Len(stored)
  /\ calls' = <<"onUpdate">>
  /\ rendered' = Some(EmitUpdate(text, 0))

\* variant: handleKey has no guard for a missing text
TextNeverMissing == FALSE

\* if (!this.testText.length) return
NoText == Len(testText) = 0

\* handleKey(key) called at time t
HandleKey(key, t) ==
  /\ now' = t
  /\ IF NoText
     THEN /\ calls' = <<>>
          /\ threw' = FALSE
          /\ UNCHANGED <<engineVars, stored, keyLog, saves, completes,
                         lastRecord, storedAtLoad, rendered, itemKind,
                         writable, appended>>
     ELSE LET expected == expectedChar
              correct  == Correct(key)
              interval == Interval(t)
              c  == NextCursor(correct)
              e  == NextErrors(correct)
              em == NextErrorMap(correct, expected)
              cf == NextConfusions(correct, expected, key)
              ts == NextTimestamps(correct, t)
              lt == NextLatencies(correct, interval)
              finished == Finished(c)
              record == Record(c, e, em, ts, lt, cf, t)
          IN /\ MapSum(cf) <= MaxConfusions
             /\ finished => (Len(stored) < MaxHistory /\ saves < MaxHistory)
             /\ cursor' = c
             /\ errors' = e
             /\ errorMap' = em
             /\ confusions' = cf
             /\ timestamps' = ts
             /\ latencies' = lt
             /\ UNCHANGED <<testText, sessionStart, storedAtLoad, writable>>
             /\ keyLog' = Append(keyLog, [key |-> key, correct |-> correct,
                                          expected |-> expected])
             /\ rendered' = Some(EmitUpdate(testText, c))
             /\ IF finished
                THEN /\ StoreSave(record)
                     /\ saves' = saves + 1
                     /\ threw' = SaveThrows
                     /\ IF SaveThrows
                        THEN /\ UNCHANGED <<completes, lastRecord>>
                             /\ calls' = KeyCallsUntilThrow
                        ELSE /\ completes' = completes + 1
                             /\ lastRecord' = Some(record)
                             /\ calls' = KeyCalls(TRUE)
                ELSE /\ UNCHANGED <<stored, itemKind, appended, saves,
                                    completes, lastRecord>>
                     /\ threw' = FALSE
                     /\ calls' = KeyCalls(FALSE)

\* The record literal of persistSession holds this.errorMap and
\* this.confusions themselves, not copies. loadText assigns a new object to
\* this.errorMap; this.confusions is assigned by resetSession only.
ReadThrough(r, shares) ==
  [ r EXCEPT !.errorMap   = IF shares THEN errorMap' ELSE @,
             !.confusions = confusions' ]

HolderAfterLoad ==
  /\ heldShares' = FALSE
  /\ heldAtCall' = heldAtCall
  /\ held' = IF held = Null THEN Null
             ELSE Some(ReadThrough(held[1], FALSE))

HolderAfterKey ==
  IF completes' > completes
  THEN /\ held' = lastRecord'
       /\ heldAtCall' = lastRecord'
       /\ heldShares' = TRUE
  ELSE /\ heldShares' = heldShares
       /\ heldAtCall' = heldAtCall
       /\ held' = IF held = Null THEN Null
                  ELSE Some(ReadThrough(held[1], heldShares))

Load == \E text \in Texts, d \in Gaps :
          /\ now + d <= MaxNow
          /\ LoadText(text, now + d)
          /\ HolderAfterLoad
          /\ UNCHANGED <<callerVars, appVars>>

Key == \E key \in Keys, d \in Gaps :
         /\ now + d <= MaxNow
         /\ HandleKey(key, now + d)
         /\ HolderAfterKey
         /\ UNCHANGED <<callerVars, appVars>>

Next == Load \/ Key

Spec == Init /\ [][Next]_vars

\* ------------------------------------- the history store called directly
\* Entries handed to saveSession: records the engine produces.
\* loadText('a') and handleKey('a') at the same clock value
EntryInstant ==
  [ id |-> 1, timestamp |-> <<"iso", 1>>, length |-> 1, errors |-> 0,
    accuracy |-> 1000, wpm |-> Infinity, errorMap |-> EmptyMap,
    latency |-> Null, confusions |-> EmptyMap ]

\* loadText('a') at 1 ms, handleKey('a') at 5000 ms
EntryTimed ==
  [ id |-> 5000, timestamp |-> <<"iso", 5000>>, length |-> 1, errors |-> 0,
    accuracy |-> 1000, wpm |-> Num(2), errorMap |-> EmptyMap,
    latency |-> Some([count |-> 1, avg |-> 49990, p50 |-> 49990,
                      p90 |-> 49990, p99 |-> 49990]),
    confusions |-> EmptyMap ]

\* loadText('a') and handleKey('b') at 1 ms, handleKey('a') at 5001 ms
EntryMiss ==
  [ id |-> 5001, timestamp |-> <<"iso", 5001>>, length |-> 1, errors |-> 1,
    accuracy |-> 500, wpm |-> Num(2), errorMap |-> ("a" :> 1),
    latency |-> Null, confusions |-> ("a→b" :> 1) ]

\* loadText('ab') and handleKey('a') at 1 ms, handleKey('b') at 5000 ms
EntryTwoKeys ==
  [ id |-> 5000, timestamp |-> <<"iso", 5000>>, length |-> 2, errors |-> 0,
    accuracy |-> 1000, wpm |-> Num(5), errorMap |-> EmptyMap,
    latency |-> Some([count |-> 1, avg |-> 49990, p50 |-> 49990,
                      p90 |-> 49990, p99 |-> 49990]),
    confusions |-> EmptyMap ]

Entries == { EntryInstant, EntryTimed, EntryMiss, EntryTwoKeys }
Limits == 0..MaxLimit

StoreCall(op, limit) == Some([op |-> op, limit |-> limit])

engineSide == <<engineVars, now, keyLog, saves, completes, lastRecord,
                storedAtLoad, calls, rendered, holderVars, appVars>>

\* storage.saveSession(entry)
StoreSaveOp(entry) ==
  /\ Len(stored) < MaxHistory
  /\ Len(appended) < MaxHistory
  /\ StoreSave(entry)
  /\ threw' = SaveThrows
  /\ storeOp' = StoreCall("saveSession", 0)
  /\ returned' = Null
  /\ UNCHANGED <<engineSide, writable>>

\* storage.clear(): this._save([])
StoreClear ==
  /\ IF writable
     THEN stored' = <<>> /\ itemKind' = "array" /\ appended' = <<>>
     ELSE UNCHANGED <<stored, itemKind, appended>>
  /\ threw' = ~writable
  /\ storeOp' = StoreCall("clear", 0)
  /\ returned' = Null
  /\ UNCHANGED <<engineSide, writable>>

\* variant: list(limit) writes the cut list back to the store
StoreListTrim(limit) ==
  /\ stored' = Slice(stored, limit)
  /\ threw' = ListThrows
  /\ returned' = IF ListThrows THEN Null ELSE Some(ListResult(limit))
  /\ storeOp' = StoreCall("list", limit)
  /\ UNCHANGED <<engineSide, writable, itemKind, appended>>

\* storage.list(limit)
StoreList(limit) ==
  /\ threw' = ListThrows
  /\ returned' = IF ListThrows THEN Null ELSE Some(ListResult(limit))
  /\ storeOp' = StoreCall("list", limit)
  /\ UNCHANGED <<engineSide, writable, stored, itemKind, appended>>

\* storage.export()
StoreExport ==
  /\ threw' = FALSE
  /\ returned' = Some(ExportResult)
  /\ storeOp' = StoreCall("export", 0)
  /\ UNCHANGED <<engineSide, writable, stored, itemKind, appended>>

StoreSaveStep == \E entry \in Entries : StoreSaveOp(entry)
StoreListStep == \E limit \in Limits : StoreList(limit)

NextStore == StoreSaveStep \/ StoreClear \/ StoreListStep \/ StoreExport

SpecStore == Init /\ [][NextStore]_vars

\* ------------------------------------------------- a failing backing store
\* something else writes a non-array value under the history key
Corrupt(kind) ==
  /\ itemKind' = kind
  /\ stored' = <<>>
  /\ UNCHANGED <<engineSide, writable, threw, appended, callerVars>>

CorruptStep == \E kind \in CorruptKinds : Corrupt(kind)

\* from now on setItem throws (quota exceeded, storage disabled)
Unwritable ==
  /\ writable
  /\ writable' = FALSE
  /\ UNCHANGED <<engineSide, stored, itemKind, threw, appended, callerVars>>

NextCorruptStore == NextStore \/ CorruptStep

SpecCorruptStore == Init /\ [][NextCorruptStore]_vars

\* the backing store fails before the engine is given a text
StoreFails ==
  /\ testText = <<>>
  /\ keyLog = <<>>
  /\ (Unwritable \/ Corrupt("object"))

NextFaulty == Load \/ Key \/ StoreFails

SpecFaulty == Init /\ [][NextFaulty]_vars

\* ------------------------------------------------- generateSuggestions
\* An error map handed to generateSuggestions is the sequence of its
\* [char, count] entries in the order Object.entries lists them. A score is
\* kept in fiftieths (5.4 is 270), so that 1.2 and 0.4 are whole factors.
WhiteSpace == { " ", "\t", "\n", "\r", "\f" }

\* /\s/.test(char)
IsWhitespace(char) == char \in WhiteSpace

HistoryWeight == 50
CurrentWeight == 60

\* aggregate.set(char, (aggregate.get(char) || 0) + amount): a Map keeps a
\* key where it was first set
RECURSIVE AggregateSet(_, _, _)
AggregateSet(aggregate, char, amount) ==
  IF aggregate = <<>> THEN << <<char, amount>> >>
  ELSE IF aggregate[1][1] = char
       THEN << <<char, aggregate[1][2] + amount>> >> \o Tail(aggregate)
       ELSE << aggregate[1] >> \o AggregateSet(Tail(aggregate), char, amount)

\* Object.entries(map).forEach(([char, count]) => aggregate.set(...))
RECURSIVE AddEntries(_, _, _)
AddEntries(aggregate, entries, weight) ==
  IF entries = <<>> THEN aggregate
  ELSE AddEntries(AggregateSet(aggregate, entries[1][1],
                               entries[1][2] * weight),
                  Tail(entries), weight)

\* map || {}
OrEmpty(map) == IF map = Null THEN <<>> ELSE map[1]

\* consider.forEach(s => ...) over the history
RECURSIVE AddSessions(_, _)
AddSessions(aggregate, sessions) ==
  IF sessions = <<>> THEN aggregate
  ELSE AddSessions(AddEntries(aggregate, OrEmpty(sessions[1].errorMap),
                              HistoryWeight),
                   Tail(sessions))

\* variant: the current session is weighted like the history
AggregateUnweighted(sessions, current) ==
  AddEntries(AddSessions(<<>>, sessions), OrEmpty(current), HistoryWeight)

Aggregate(sessions, current) ==
  AddEntries(AddSessions(<<>>, sessions), OrEmpty(current), CurrentWeight)

\* const rarityBoost = isWhitespace ? 0.4 : 1; return [char, count * rarityBoost]
RarityBoost(char, count) ==
  IF IsWhitespace(char) THEN (count * 2) \div 5 ELSE count

Scored(aggregate) ==
  [ i \in 1..Len(aggregate) |->
      <<aggregate[i][1], RarityBoost(aggregate[i][1], aggregate[i][2])>> ]

\* scored.sort((a,b) => b[1] - a[1]): descending, stable
RECURSIVE InsertDesc(_, _)
InsertDesc(x, s) ==
  IF s = <<>> THEN <<x>>
  ELSE IF x[2] > s[1][2] THEN <<x>> \o s
  ELSE <<s[1]>> \o InsertDesc(x, Tail(s))

RECURSIVE SortDescFrom(_, _)
SortDescFrom(sorted, rest) ==
  IF rest = <<>> THEN sorted
  ELSE SortDescFrom(InsertDesc(rest[1], sorted), Tail(rest))

\* variant: ascending order
RECURSIVE InsertAsc(_, _)
InsertAsc(x, s) ==
  IF s = <<>> THEN <<x>>
  ELSE IF x[2] < s[1][2] THEN <<x>> \o s
  ELSE <<s[1]>> \o InsertAsc(x, Tail(s))

RECURSIVE SortAscFrom(_, _)
SortAscFrom(sorted, rest) ==
  IF rest = <<>> THEN sorted
  ELSE SortAscFrom(InsertAsc(rest[1], sorted), Tail(rest))

SortAscending(scored) == SortAscFrom(<<>>, scored)

SortDesc(scored) == SortDescFrom(<<>>, scored)

\* generateSuggestions({ historySessions, currentErrorMap, max })
GenerateSuggestions(sessions, current, max) ==
  LET sorted == SortDesc(Scored(Aggregate(sessions, current)))
      cut    == Slice(sorted, max)
  IN [ i \in 1..Len(cut) |-> [char |-> cut[i][1], score |-> cut[i][2]] ]

\* the arguments a caller hands over
SuggestChars == { "t", " ", "\r" }
Counts == 1..MaxCount

RECURSIVE EntriesOver(_, _)
EntriesOver(chars, n) ==
  IF n = 0 THEN { <<>> }
  ELSE { <<>> } \cup
       UNION { { << <<c, k>> >> \o rest :
                   rest \in EntriesOver(chars \ {c}, n - 1) } :
               c \in chars, k \in Counts }

ErrorMaps == EntriesOver(SuggestChars, MaxKeys)
Sessions == { [errorMap |-> Some(m)] : m \in ErrorMaps }
              \cup { [errorMap |-> Null] }
Maxes == 0..MaxSuggest

engineAndStore == <<engineVars, now, stored, keyLog, saves, completes,
                    lastRecord, storedAtLoad, calls, rendered, holderVars,
                    itemKind, writable, threw, appended, callerVars, summary,
                    pageVars, workerVars, outerVars>>

\* the caller gathers one more session into the history argument
AddSession(session) ==
  /\ Len(historySessions) < MaxSessions
  /\ suggested = Null
  /\ historySessions' = Append(historySessions, session)
  /\ UNCHANGED <<currentErrorMap, suggested, engineAndStore>>

\* the caller takes the current error map
SetCurrent(map) ==
  /\ currentErrorMap = Null
  /\ suggested = Null
  /\ currentErrorMap' = Some(map)
  /\ UNCHANGED <<historySessions, suggested, engineAndStore>>

\* the call repeats the one before it: same arguments
Repeats(max) == suggested # Null /\ suggested[1].max = max

\* variant: the counts are added up in the caller's current map
SuggestInPlace(max) ==
  /\ suggested' = Some([max |-> max,
                        result |-> GenerateSuggestions(historySessions,
                                                       currentErrorMap, max),
                        again |-> Repeats(max)])
  /\ currentErrorMap' =
       Some([ i \in 1..Len(Aggregate(historySessions, currentErrorMap)) |->
                <<Aggregate(historySessions, currentErrorMap)[i][1],
                  Aggregate(historySessions, currentErrorMap)[i][2]
                    \div HistoryWeight + 1>> ])
  /\ UNCHANGED <<historySessions, engineAndStore>>

\* a call of generateSuggestions
Suggest(max) ==
  /\ suggested' = Some([max |-> max,
                        result |-> GenerateSuggestions(historySessions,
                                                       currentErrorMap, max),
                        again |-> Repeats(max)])
  /\ UNCHANGED <<historySessions, currentErrorMap, engineAndStore>>

AddSessionStep == \E session \in Sessions : AddSession(session)
SetCurrentStep == \E map \in ErrorMaps : SetCurrent(map)
SuggestStep == \E max \in Maxes : Suggest(max)

NextSuggest == AddSessionStep \/ SetCurrentStep \/ SuggestStep

SpecSuggest == Init /\ [][NextSuggest]_vars

\* ---------------------------------------- latencySummary on fine samples
\* performance.now() is a fraction of a millisecond; under SpecLatency a
\* sample of this.latencies is kept in hundredths of a millisecond.
SampleUnit == 100

\* intervals of 0.44 ms, 0.46 ms and 2.5 ms
FineSamples == { 44, 46, 250 }

notLatency == <<testText, cursor, errors, errorMap, timestamps, sessionStart,
                confusions, now, stored, keyLog, saves, completes, lastRecord,
                storedAtLoad, calls, rendered, holderVars, itemKind, writable,
                threw, appended, callerVars, suggestVars, pageVars,
                workerVars, outerVars>>

\* this.latencies.push(interval)
PushLatency(interval) ==
  /\ Len(latencies) < MaxSamples
  /\ latencies' = Append(latencies, interval)
  /\ UNCHANGED <<summary, notLatency>>

\* variant: this.latencies.sort(...) without the copy
SummariseInPlace ==
  /\ summary' = Some(SummaryIn(latencies, SampleUnit))
  /\ latencies' = SortAsc(latencies)
  /\ UNCHANGED notLatency

\* a call of latencySummary()
Summarise ==
  /\ summary' = Some(SummaryIn(latencies, SampleUnit))
  /\ UNCHANGED <<latencies, notLatency>>

PushLatencyStep == \E interval \in FineSamples : PushLatency(interval)

NextLatency == PushLatencyStep \/ Summarise

SpecLatency == Init /\ [][NextLatency]_vars

\* ------------------------------------------------------ the page (app.js)
\* sampleTexts, the texts randomText() draws from: none is empty
SampleTexts == Texts \ { <<>> }

\* Object.entries of a map of the engine, whose key order the model does
\* not keep: the entries in one fixed order
RECURSIVE MapEntries(_)
MapEntries(m) ==
  IF DOMAIN m = {} THEN <<>>
  ELSE LET k == CHOOSE x \in DOMAIN m : TRUE
       IN << <<k, m[k]>> >> \o MapEntries([y \in DOMAIN m \ {k} |-> m[y]])

\* refreshSuggestions(): generateSuggestions over storage.list(60) and
\* engine.errorMap with max 10, written to the list as data-char
RefreshedSuggestions(st, em) ==
  LET recent   == Slice(st, 60)
      sessions == [ i \in 1..Len(recent) |->
                      [errorMap |-> Some(MapEntries(recent[i].errorMap))] ]
      ranked   == GenerateSuggestions(sessions, Some(MapEntries(em)), 10)
  IN [ i \in 1..Len(ranked) |-> ranked[i].char ]

\* the characters of a key of an error map ('undefined' is nine of them)
CharsOf(c) ==
  IF c = Undefined THEN <<"u", "n", "d", "e", "f", "i", "n", "e", "d">>
  ELSE <<c>>

\* c.repeat(4)
Repeat4(c) == CharsOf(c) \o CharsOf(c) \o CharsOf(c) \o CharsOf(c)

\* chars.map(c => c.repeat(4)).join(' ')
RECURSIVE JoinRepeated(_)
JoinRepeated(chars) ==
  IF Len(chars) = 1 THEN Repeat4(chars[1])
  ELSE Repeat4(chars[1]) \o <<" ">> \o JoinRepeated(Tail(chars))

\* buildDrillFromSuggestions(): null without list items
BuildDrill(chars) == IF chars = <<>> THEN Null ELSE Some(JoinRepeated(chars))

\* keydown events: e.key with the three modifier flags the listener reads
EventKeys == { "a", "b", "Enter", "Tab", "Escape", "Shift" }
Modifiers == { <<FALSE, FALSE, FALSE>>, <<TRUE, FALSE, FALSE>>,
               <<FALSE, TRUE, FALSE>>, <<FALSE, FALSE, TRUE>> }
Events == { [ key |-> k, metaKey |-> m[1], ctrlKey |-> m[2],
              altKey |-> m[3] ] : k \in EventKeys, m \in Modifiers }

\* clock advances between page events
PageGaps == { 0 }

\* variant: a named key is handed over as it is
KeyCharRaw(key) == key

\* e.key === 'Enter' ? '\n' : (e.key === 'Tab' ? '\t' : e.key)
KeyChar(key) ==
  IF key = "Enter" THEN "\n" ELSE IF key = "Tab" THEN "\t" ELSE key

\* e.key.length === 1 || e.key === 'Enter' || e.key === 'Tab'
IsTypingKey(key) == Len(key) = 1 \/ key = "Enter" \/ key = "Tab"

HandleKeyCall(key) == Some(<<"handleKey", key>>)
LoadTextCall == Some(<<"loadText">>)

\* the page has run its start-up code
Started == sessionStart # Null

\* engine.loadText(text) called by the page
PageLoads(text, t) ==
  /\ LoadText(text, t)
  /\ HolderAfterLoad
  /\ engineCall' = LoadTextCall
  /\ UNCHANGED <<callerVars, suggestVars, summary, workerVars, outerVars>>

\* an event that calls nothing
Ignored ==
  /\ engineCall' = Null
  /\ UNCHANGED <<engineVars, now, stored, keyLog, saves, completes,
                 lastRecord, storedAtLoad, calls, rendered, holderVars,
                 itemKind, writable, threw, appended, callerVars, summary,
                 suggestVars, drillActive, previousText, suggestionList,
                 textAtStartDrill, workerVars, outerVars>>

\* start-up: engine.loadText(randomText()) ... refreshSuggestions()
PageStart(random, t) ==
  /\ ~Started
  /\ PageLoads(random, t)
  /\ suggestionList' = RefreshedSuggestions(stored, EmptyMap)
  /\ UNCHANGED <<drillActive, previousText, textAtStartDrill>>

\* the keydown listener; a completed session runs handleSessionComplete,
\* which refreshes the suggestions
KeyDown(e, t) ==
  /\ Started
  /\ IF e.metaKey \/ e.ctrlKey \/ e.altKey THEN Ignored
     ELSE IF IsTypingKey(e.key)
     THEN /\ HandleKey(KeyChar(e.key), t)
          /\ HolderAfterKey
          /\ engineCall' = HandleKeyCall(KeyChar(e.key))
          /\ suggestionList' =
               IF completes' > completes
               THEN RefreshedSuggestions(stored', errorMap')
               ELSE suggestionList
          /\ UNCHANGED <<callerVars, suggestVars, summary, drillActive,
                         previousText, textAtStartDrill, workerVars,
                         outerVars>>
     ELSE IF e.key = "Escape"
     THEN /\ \E random \in SampleTexts : PageLoads(random, t)
          /\ suggestionList' = RefreshedSuggestions(stored, EmptyMap)
          /\ UNCHANGED <<drillActive, previousText, textAtStartDrill>>
     ELSE Ignored

\* the Reset button
ResetClick(random, t) ==
  /\ Started
  /\ PageLoads(random, t)
  /\ suggestionList' = RefreshedSuggestions(stored, EmptyMap)
  /\ UNCHANGED <<drillActive, previousText, textAtStartDrill>>

\* the Regenerate button, and the timer a keystroke sets
RefreshSuggestions ==
  /\ Started
  /\ suggestionList' = RefreshedSuggestions(stored, errorMap)
  /\ engineCall' = Null
  /\ UNCHANGED <<engineVars, now, stored, keyLog, saves, completes,
                 lastRecord, storedAtLoad, calls, rendered, holderVars,
                 itemKind, writable, threw, appended, callerVars, summary,
                 suggestVars, drillActive, previousText, textAtStartDrill,
                 workerVars, outerVars>>

\* startDrill()
StartDrill(t) ==
  /\ Started
  /\ IF drillActive \/ BuildDrill(suggestionList) = Null THEN Ignored
     ELSE /\ previousText' = Some(testText)
          /\ textAtStartDrill' = Some(testText)
          /\ PageLoads(BuildDrill(suggestionList)[1], t)
          /\ drillActive' = TRUE
          /\ UNCHANGED suggestionList

\* the text endDrill loads: previousText || randomText()
DrillReturnText(random) ==
  IF previousText # Null /\ previousText[1] # <<>> THEN previousText[1]
  ELSE random

\* variant: endDrill loads a random text
EndDrillRandom(random, t) ==
  /\ Started
  /\ IF ~drillActive THEN Ignored
     ELSE /\ PageLoads(random, t)
          /\ drillActive' = FALSE
          /\ suggestionList' = RefreshedSuggestions(stored, EmptyMap)
          /\ UNCHANGED <<previousText, textAtStartDrill>>

\* endDrill()
EndDrill(random, t) ==
  /\ Started
  /\ IF ~drillActive THEN Ignored
     ELSE /\ PageLoads(DrillReturnText(random), t)
          /\ drillActive' = FALSE
          /\ suggestionList' = RefreshedSuggestions(stored, EmptyMap)
          /\ UNCHANGED <<previousText, textAtStartDrill>>

PageStartStep == \E random \in SampleTexts, d \in PageGaps :
                   now + d <= MaxNow /\ PageStart(random, now + d)
KeyDownStep == \E e \in Events, d \in PageGaps :
                 now + d <= MaxNow /\ KeyDown(e, now + d)
ResetClickStep == \E random \in SampleTexts, d \in PageGaps :
                    now + d <= MaxNow /\ ResetClick(random, now + d)
StartDrillStep == \E d \in PageGaps : now + d <= MaxNow /\ StartDrill(now + d)
EndDrillStep == \E random \in SampleTexts, d \in PageGaps :
                  now + d <= MaxNow /\ EndDrill(random, now + d)

NextPage == PageStartStep \/ KeyDownStep \/ ResetClickStep
              \/ RefreshSuggestions \/ StartDrillStep \/ EndDrillStep

SpecPage == Init /\ [][NextPage]_vars

\* ----------------------------------------------- the service worker (sw.js)
\* status codes the network answers with: one ok, one not
Statuses == { 200, 404 }

\* resp.ok
Ok(resp) == resp.status >= 200 /\ resp.status <= 299

\* the response the network gives invocation i
NetworkResponse(i, request, status) ==
  [status |-> status, body |-> "network", request |-> request, id |-> i]

OfflineStatus == 503

\* new Response(JSON.stringify({ offline: true }), { status: 503, ... })
OfflineResponse ==
  [status |-> OfflineStatus, body |-> "{\"offline\":true}", request |-> "",
   id |-> 0]

pageSide == <<engineVars, now, stored, keyLog, saves, completes, lastRecord,
              storedAtLoad, calls, rendered, holderVars, itemKind, writable,
              threw, appended, callerVars, suggestVars, summary, pageVars>>
notWorker == <<pageSide, activateVars, restVars>>

Fulfilled(resp) == [state |-> "fulfilled", value |-> Some(resp)]
Rejected == [state |-> "rejected", value |-> Null]

\* invocation i moves on
Advance(i, changes) ==
  invocations' =
    [invocations EXCEPT ![i] =
       [ f \in DOMAIN @ |-> IF f \in DOMAIN changes THEN changes[f] ELSE @[f] ]]

\* networkFirst(request, API_CACHE) is called: it awaits caches.open
NetworkFirst(request) ==
  /\ Len(invocations) < MaxInvocations
  /\ invocations' = Append(invocations,
                           [request |-> request, pc |-> "open",
                            fetched |-> "pending", resp |-> Null,
                            cached |-> Null, outcome |-> Null])
  /\ UNCHANGED <<apiCache, puts, notWorker>>

\* caches.open resolves: the call enters the try block and awaits fetch
CachesOpenResolves(i) ==
  /\ invocations[i].pc = "open"
  /\ Advance(i, [pc |-> "fetch"])
  /\ UNCHANGED <<apiCache, puts, notWorker>>

\* caches.open rejects (creating the cache exceeds the quota): the await
\* stands before the try block, the call rejects
CachesOpenRejects(i) ==
  /\ invocations[i].pc = "open"
  /\ Advance(i, [pc |-> "done", outcome |-> Some(Rejected)])
  /\ UNCHANGED <<apiCache, puts, notWorker>>

\* fetch resolves: if (resp && resp.ok) cache.put(request, resp.clone()),
\* not awaited; return resp
FetchResolves(i, status) ==
  LET resp == NetworkResponse(i, invocations[i].request, status)
  IN /\ invocations[i].pc = "fetch"
     /\ puts' = IF Ok(resp)
                THEN puts \cup { [request |-> invocations[i].request,
                                  resp |-> resp] }
                ELSE puts
     /\ Advance(i, [pc |-> "done", fetched |-> "resolved",
                    resp |-> Some(resp), outcome |-> Some(Fulfilled(resp))])
     /\ UNCHANGED <<apiCache, notWorker>>

\* fetch rejects: the catch block awaits cache.match
FetchRejects(i) ==
  /\ invocations[i].pc = "fetch"
  /\ Advance(i, [pc |-> "match", fetched |-> "rejected"])
  /\ UNCHANGED <<apiCache, puts, notWorker>>

\* cache.match resolves: return cached || new Response(...)
CacheMatchResolves(i) ==
  LET cached == apiCache[invocations[i].request]
  IN /\ invocations[i].pc = "match"
     /\ Advance(i, [pc |-> "done", cached |-> Some(cached),
                    outcome |-> Some(Fulfilled(IF cached # Null THEN cached[1]
                                               ELSE OfflineResponse))])
     /\ UNCHANGED <<apiCache, puts, notWorker>>

\* a cache.put finishes and the entry is written
CachePutResolves(put) ==
  /\ put \in puts
  /\ apiCache' = [apiCache EXCEPT ![put.request] = Some(put.resp)]
  /\ puts' = puts \ { put }
  /\ UNCHANGED <<invocations, notWorker>>

\* a cache.put rejects; nothing awaits it
CachePutRejects(put) ==
  /\ put \in puts
  /\ puts' = puts \ { put }
  /\ UNCHANGED <<apiCache, invocations, notWorker>>

Invoked == 1..Len(invocations)

NextWorker ==
  \/ \E request \in Requests : NetworkFirst(request) /\ UNCHANGED outerVars
  \/ \E i \in Invoked : CachesOpenResolves(i) /\ UNCHANGED outerVars
  \/ \E i \in Invoked : CachesOpenRejects(i) /\ UNCHANGED outerVars
  \/ \E i \in Invoked, status \in Statuses :
       FetchResolves(i, status) /\ UNCHANGED outerVars
  \/ \E i \in Invoked : FetchRejects(i) /\ UNCHANGED outerVars
  \/ \E i \in Invoked : CacheMatchResolves(i) /\ UNCHANGED outerVars
  \/ \E put \in puts : CachePutResolves(put) /\ UNCHANGED outerVars
  \/ \E put \in puts : CachePutRejects(put) /\ UNCHANGED outerVars

SpecWorker == Init /\ [][NextWorker]_vars

\* ------------------------------------------- the fetch listener (sw.js)
Methods == { "GET", "POST" }

\* isApi(request)
IsApi(url) == url \in Requests

\* what caches.match('/index.html') finds when the shell is cached
IndexResponse ==
  [status |-> 200, body |-> "index", request |-> "/index.html", id |-> 0]

\* let p: networkFirst(request, API_CACHE) for an API request, which runs
\* up to its await of caches.open; caches.match('/index.html') for a
\* navigation
Strategy(url) ==
  [request |-> url, pc |-> IF IsApi(url) THEN "open" ELSE "index",
   fetched |-> "pending", resp |-> Null, cached |-> Null, outcome |-> Null]

Answer(url, promise) == [url |-> url, promise |-> promise]

\* variant: handle() without the inFlight.has test
FetchEventNoDedupe(method, url) ==
  IF method # "GET" THEN UNCHANGED <<workerVars, listenerVars, notWorker>>
  ELSE /\ Len(answered) < MaxEvents
       /\ Len(invocations) < MaxInvocations
       /\ invocations' = Append(invocations, Strategy(url))
       /\ inFlight' = [inFlight EXCEPT ![url] = Some(Len(invocations) + 1)]
       /\ answered' = Append(answered, Answer(url, Len(invocations) + 1))
       /\ UNCHANGED <<apiCache, puts, notWorker>>

\* the fetch listener up to the first await of handle(): a request that is
\* not a GET is left alone; a url in inFlight is answered with the promise
\* held there; otherwise the strategy is started and its promise is put
\* into inFlight
FetchEvent(method, url) ==
  IF method # "GET" THEN UNCHANGED <<workerVars, listenerVars, notWorker>>
  ELSE /\ Len(answered) < MaxEvents
       /\ IF inFlight[url] # Null
          THEN /\ answered' = Append(answered, Answer(url, inFlight[url][1]))
               /\ UNCHANGED <<workerVars, inFlight, notWorker>>
          ELSE /\ Len(invocations) < MaxInvocations
               /\ invocations' = Append(invocations, Strategy(url))
               /\ inFlight' =
                    [inFlight EXCEPT ![url] = Some(Len(invocations) + 1)]
               /\ answered' =
                    Append(answered, Answer(url, Len(invocations) + 1))
               /\ UNCHANGED <<apiCache, puts, notWorker>>

\* caches.match('/index.html') resolves, with the shell or with undefined
IndexMatchResolves(i, hit) ==
  /\ invocations[i].pc = "index"
  /\ Advance(i, [pc |-> "done",
                 outcome |-> Some([state |-> "fulfilled",
                                   value |-> IF hit THEN Some(IndexResponse)
                                             ELSE Null])])
  /\ UNCHANGED <<apiCache, puts, notWorker>>

\* p.finally(() => inFlight.delete(request.url)): the callback runs in the
\* microtasks of the step that settles p, before any other event
Finally(i) ==
  /\ inFlight' = IF invocations'[i].pc = "done"
                 THEN [inFlight EXCEPT ![invocations[i].request] = Null]
                 ELSE inFlight
  /\ UNCHANGED answered

NextListener ==
  \/ \E method \in Methods, url \in EventUrls : FetchEvent(method, url)
  \/ \E i \in Invoked : CachesOpenResolves(i) /\ Finally(i)
  \/ \E i \in Invoked : CachesOpenRejects(i) /\ Finally(i)
  \/ \E i \in Invoked, status \in Statuses :
       FetchResolves(i, status) /\ Finally(i)
  \/ \E i \in Invoked : FetchRejects(i) /\ Finally(i)
  \/ \E i \in Invoked : CacheMatchResolves(i) /\ Finally(i)
  \/ \E i \in Invoked, hit \in BOOLEAN :
       IndexMatchResolves(i, hit) /\ Finally(i)
  \/ \E put \in puts : CachePutResolves(put) /\ UNCHANGED listenerVars
  \/ \E put \in puts : CachePutRejects(put) /\ UNCHANGED listenerVars

SpecListener == Init /\ [][NextListener]_vars

\* -------------------------------------------- the activate handler (sw.js)
\* CORE_CACHE, RUNTIME_CACHE, FONT_CACHE, API_CACHE of VERSION 'v3'
CurrentCaches == { "typeflow-core-v3", "typeflow-runtime-v3",
                   "typeflow-fonts-v3", "typeflow-api-v3" }

\* caches of an earlier version, and one of another script of the origin
OtherCaches == { "typeflow-core-v2", "typeflow-api-v2", "notes" }

notActivate == <<pageSide, workerVars, listenerVars, restVars>>

\* before activation: install and earlier versions have created caches
CacheCreated(name) ==
  /\ activation.pc = "idle"
  /\ name \notin cacheNames
  /\ cacheNames' = cacheNames \cup { name }
  /\ UNCHANGED <<activation, notActivate>>

\* the activate event: the handler awaits caches.keys()
Activate ==
  /\ activation.pc = "idle"
  /\ activation' = [activation EXCEPT !.pc = "keys"]
  /\ UNCHANGED <<cacheNames, notActivate>>

\* variant: keys.filter(k => k !== CORE_CACHE)
StaleButCore(keys) == keys \ { "typeflow-core-v3" }

\* keys.filter(k => ![CORE_CACHE, RUNTIME_CACHE, FONT_CACHE, API_CACHE]
\*   .includes(k))
Stale(keys) == keys \ CurrentCaches

\* caches.keys() resolves: every stale key gets its caches.delete, and the
\* handler awaits them all
KeysResolve ==
  /\ activation.pc = "keys"
  /\ activation' = [activation EXCEPT !.pc = "deleting", !.keys = cacheNames,
                                      !.deleting = Stale(cacheNames)]
  /\ UNCHANGED <<cacheNames, notActivate>>

\* one caches.delete(k) resolves
DeleteResolves(name) ==
  /\ activation.pc = "deleting"
  /\ name \in activation.deleting
  /\ cacheNames' = cacheNames \ { name }
  /\ activation' = [activation EXCEPT !.deleting = @ \ { name },
                                      !.deleted = @ \cup { name }]
  /\ UNCHANGED notActivate

\* Promise.all resolves: the handler awaits self.clients.claim()
AllDeleted ==
  /\ activation.pc = "deleting"
  /\ activation.deleting = {}
  /\ activation' = [activation EXCEPT !.pc = "claim"]
  /\ UNCHANGED <<cacheNames, notActivate>>

\* clients.claim() resolves: the handler completes
ClaimResolves ==
  /\ activation.pc = "claim"
  /\ activation' = [activation EXCEPT !.pc = "completed"]
  /\ UNCHANGED <<cacheNames, notActivate>>

NextActivate ==
  \/ \E name \in CurrentCaches \cup OtherCaches : CacheCreated(name)
  \/ Activate
  \/ KeysResolve
  \/ \E name \in cacheNames : DeleteResolves(name)
  \/ AllDeleted
  \/ ClaimResolves

SpecActivate == Init /\ [][NextActivate]_vars

\* ------------------------------------- handleSessionComplete (app.js)
\* s.wpm || 0 on a stored session: null and 0 give 0
WpmOrZero(v) == IF v[1] = "num" THEN v[2] ELSE 0

\* list.reduce((m, s) => Math.max(m, s.wpm || 0), 0)
MaxWpm(list) ==
  LET seen == { WpmOrZero(list[i].wpm) : i \in 1..Len(list) } \cup { 0 }
  IN CHOOSE m \in seen : \A v \in seen : v <= m

BestWindow == 200

\* storage.list(200).slice(1).reduce(...)
BestBefore(list) == MaxWpm(Tail(Slice(list, BestWindow)))

\* record.wpm > bestBefore
Exceeds(v, best) == IF v = Infinity THEN TRUE ELSE v[2] > best

notCompletion == <<engineVars, now, keyLog, saves, completes, lastRecord,
                   storedAtLoad, calls, rendered, holderVars, writable, threw,
                   callerVars, suggestVars, summary, pageVars, workerVars,
                   listenerVars, activateVars, serverVars, timerVars>>

\* a session completes with this record: persistSession saves it and calls
\* onComplete, which is handleSessionComplete
CompleteSession(record) ==
  /\ ~SaveThrows
  /\ Len(stored) < MaxStored
  /\ StoreSave(record)
  /\ bestToast' = Some([bestBefore |-> BestBefore(stored'),
                        raised |-> Exceeds(record.wpm, BestBefore(stored'))])
  /\ UNCHANGED notCompletion

\* the run of sessions: any of the entries at first, slow sessions from
\* then on until the history is longer than the window, then any again
NextBest ==
  \/ \E record \in Entries :
       /\ Len(stored) < MaxVaried \/ Len(stored) >= BestWindow
       /\ CompleteSession(record)
  \/ /\ Len(stored) >= MaxVaried /\ Len(stored) < BestWindow
     /\ CompleteSession(EntryTimed)

SpecBest == Init /\ [][NextBest]_vars

\* ---------------------------------------------- the sample server (server.js)
\* a field the request body or the headers do not have
Absent == "(absent)"

\* passwords a request may carry
Passwords == { "p", "undefined" }

\* hash(pw): 'h$' + pw, where a missing pw reads 'undefined'
Hash(pw) == "h$" \o (IF pw = Absent THEN "undefined" ELSE pw)

\* verify(pw, hashStr): hash(pw) === hashStr
VerifyPassword(pw, hashStr) == Hash(pw) = hashStr

\* generateToken(user): the token is kept as the subject it is signed for
TokenOf(user) == "jwt:" \o user

\* a token not signed with JWT_SECRET, or expired
Forged == "forged"

\* Authorization headers: none, or a token with or without 'Bearer '
Headers ==
  LET issued == { TokenOf(u) : u \in tokens }
  IN { <<>> } \cup { <<"Bearer ", t>> : t \in { Forged } \cup issued }
              \cup { <<t>> : t \in issued }

\* auth.replace('Bearer ', '')
StripBearer(auth) == IF auth[1] = "Bearer " THEN auth[2] ELSE auth[1]

\* variant: the token is decoded without its signature being checked
JwtDecode(token) == IF token = Forged THEN Some("a")
                    ELSE Some(CHOOSE u \in Users : token = TokenOf(u))

\* jwt.verify(token, JWT_SECRET): decoded.sub, or Null when it throws
JwtVerify(token) ==
  IF \E u \in Users : token = TokenOf(u)
  THEN Some(CHOOSE u \in Users : token = TokenOf(u))
  ELSE Null

\* authMiddleware: req.user, or Null when it answers 401
Authenticated(auth) ==
  IF auth = <<>> THEN Null ELSE JwtVerify(StripBearer(auth))

\* res.status(status).json(...): the status with what the body holds
Reply(status, error, token, list) ==
  [status |-> status, error |-> error, token |-> token, sessions |-> list]

notServer == <<pageSide, workerVars, listenerVars, activateVars, bestToast,
               timerVars>>

\* POST /api/signup
Signup(username, password, password2) ==
  /\ IF username = Absent \/ password = Absent
     THEN /\ response' = Reply(400, "Missing fields", "", <<>>)
          /\ UNCHANGED <<users, serverSessions, tokens, given>>
     ELSE IF password # password2
     THEN /\ response' = Reply(400, "Passwords do not match", "", <<>>)
          /\ UNCHANGED <<users, serverSessions, tokens, given>>
     ELSE IF users[username] # Null
     THEN /\ response' = Reply(409, "User exists", "", <<>>)
          /\ UNCHANGED <<users, serverSessions, tokens, given>>
     ELSE /\ users' = [users EXCEPT ![username] = Some(Hash(password))]
          /\ serverSessions' = [serverSessions EXCEPT ![username] = Some(<<>>)]
          /\ tokens' = tokens \cup { username }
          /\ given' = [given EXCEPT ![username] = Some(password)]
          /\ response' = Reply(200, "", TokenOf(username), <<>>)
  /\ UNCHANGED <<posted, notServer>>

\* POST /api/login
Login(username, password) ==
  /\ IF \/ username = Absent
        \/ users[username] = Null
        \/ ~VerifyPassword(password, users[username][1])
     THEN /\ response' = Reply(401, "Invalid credentials", "", <<>>)
          /\ UNCHANGED tokens
     ELSE /\ response' = Reply(200, "", TokenOf(username), <<>>)
          /\ tokens' = tokens \cup { username }
  /\ UNCHANGED <<users, serverSessions, given, posted, notServer>>

SessionCap == 200
HistoryPage == 50

\* variant: the list is never trimmed
Untrimmed(list) == list

\* if (list.length > 200) list.pop()
Trimmed(list) ==
  IF Len(list) > SessionCap THEN SubSeq(list, 1, Len(list) - 1) ELSE list

\* sessions.get(req.user) || []
ListOf(user) ==
  IF serverSessions[user] = Null THEN <<>> ELSE serverSessions[user][1]

\* the record a client holding the token of this user sends next
NextRecord(user) == [by |-> user, n |-> posted[user] + 1]

\* POST /api/session, the body with or without a record
PostSession(auth, withRecord) ==
  LET user == Authenticated(auth)
  IN /\ IF user = Null
        THEN /\ response' = Reply(401, "Invalid token", "", <<>>)
             /\ UNCHANGED <<serverSessions, posted>>
        ELSE IF ~withRecord
        THEN /\ response' = Reply(400, "Missing record", "", <<>>)
             /\ UNCHANGED <<serverSessions, posted>>
        ELSE /\ posted[user[1]] <
                  (IF user[1] = "a" THEN MaxPosts ELSE MaxOtherPosts)
             /\ serverSessions' =
                  [serverSessions EXCEPT ![user[1]] =
                     Some(Trimmed(<<NextRecord(user[1])>> \o ListOf(user[1])))]
             /\ posted' = [posted EXCEPT ![user[1]] = @ + 1]
             /\ response' = Reply(200, "", "", <<>>)
     /\ UNCHANGED <<users, tokens, given, notServer>>

\* GET /api/session/history
GetHistory(auth) ==
  LET user == Authenticated(auth)
  IN /\ response' =
          IF user = Null THEN Reply(401, "Invalid token", "", <<>>)
          ELSE Reply(200, "", "", Slice(ListOf(user[1]), HistoryPage))
     /\ UNCHANGED <<users, serverSessions, tokens, given, posted, notServer>>

Fields(values) == values \cup { Absent }

\* the server under users who sign up well and then post and read
NextServer ==
  \/ \E username \in Users : Signup(username, "p", "p")
  \/ \E auth \in Headers, withRecord \in BOOLEAN : PostSession(auth, withRecord)
  \/ \E auth \in Headers : GetHistory(auth)

SpecServer == Init /\ [][NextServer]_vars

\* the server under every signup and login, with a few records posted
NextAuth ==
  \/ \E username \in Fields(Users), password \in Fields(Passwords),
        password2 \in Fields(Passwords) :
       Signup(username, password, password2)
  \/ \E username \in Fields(Users), password \in Fields(Passwords) :
       Login(username, password)
  \/ \E auth \in Headers :
       /\ \A u \in Users : posted[u] < MaxOtherPosts
       /\ PostSession(auth, TRUE)

SpecAuth == Init /\ [][NextAuth]_vars

\* --------------------------- scheduleSuggestionRefresh (app.js, debounce)
\* setTimeout(refreshSuggestions, 550) in app.js
RefreshDelay == 550
\* debounce(refreshSuggestions, 300) in app-optimized.js
OptimizedDelay == 300

notTimer == <<pageSide, workerVars, listenerVars, activateVars, bestToast,
              serverVars>>

\* the script of the page runs: scheduleSuggestionRefresh is defined
ScriptRuns(wait) ==
  /\ debounceWait = Null
  /\ debounceWait' = Some(wait)
  /\ UNCHANGED <<suggestionRefreshTimer, timers, clock, typed, refreshed,
                 notTimer>>

\* variant: the timeout is left set
KeepTimeout(id, table) == table

\* clearTimeout(id): undefined and the id of a timeout that ran clear nothing
ClearTimeout(id, table) == { x \in table : Some(x.id) # id }

\* the id setTimeout returns next
NextTimerId == Len(typed) + 1

\* scheduleSuggestionRefresh() at time t: clearTimeout(timer), then
\* timer = setTimeout(refreshSuggestions, wait)
ScheduleSuggestionRefresh(t) ==
  /\ timers' = ClearTimeout(suggestionRefreshTimer, timers)
                 \cup { [id |-> NextTimerId, due |-> t + debounceWait[1]] }
  /\ suggestionRefreshTimer' = Some(NextTimerId)

\* the event loop runs its tasks in the order of their times: an event of
\* time t is handled when no timeout was due before t
InOrder(t) == \A x \in timers : x.due >= t

\* the keydown listener at time t, as the timer sees it: the branch that
\* calls engine.handleKey calls scheduleSuggestionRefresh; Escape calls
\* refreshSuggestions itself and leaves the timer alone
TimerKeyDown(e, t) ==
  /\ debounceWait # Null
  /\ InOrder(t)
  /\ t + debounceWait[1] <= MaxClock
  /\ clock' = t
  /\ IF ~(e.metaKey \/ e.ctrlKey \/ e.altKey) /\ IsTypingKey(e.key)
     THEN /\ Len(typed) < MaxTyped
          /\ typed' = Append(typed, t)
          /\ ScheduleSuggestionRefresh(t)
     ELSE UNCHANGED <<typed, suggestionRefreshTimer, timers>>
  /\ UNCHANGED <<debounceWait, refreshed, notTimer>>

\* a timeout runs when it is due: refreshSuggestions in app.js; later() of
\* debounce, which clears the timeout held and calls refreshSuggestions
TimeoutRuns(x) ==
  /\ x \in timers
  /\ InOrder(x.due)
  /\ clock' = x.due
  /\ timers' = IF debounceWait = Some(OptimizedDelay)
               THEN ClearTimeout(suggestionRefreshTimer, timers \ { x })
               ELSE timers \ { x }
  /\ refreshed' = Append(refreshed, [id |-> x.id, at |-> x.due])
  /\ UNCHANGED <<debounceWait, suggestionRefreshTimer, typed, notTimer>>

\* the gaps between two events, around the delay
TimerGaps == { 0, debounceWait[1] - 1, debounceWait[1], debounceWait[1] + 1 }

\* a key and Escape, each alone and with Ctrl held
TimerEvents ==
  { e \in Events : e.key \in { "a", "Escape" } /\ ~e.metaKey /\ ~e.altKey }

NextDebounce ==
  \/ \E wait \in { RefreshDelay, OptimizedDelay } : ScriptRuns(wait)
  \/ \E e \in TimerEvents :
       debounceWait # Null /\ \E d \in TimerGaps : TimerKeyDown(e, clock + d)
  \/ \E x \in timers : TimeoutRuns(x)

\* a timeout that is set runs unless it is cleared first
SpecDebounce ==
  Init /\ [][NextDebounce]_vars /\ WF_vars(\E x \in timers : TimeoutRuns(x))

\* ------------------------------------------------ observations of a load
\* indices of the incorrect keystrokes reported to onKey since the load
Misses == { i \in 1..Len(keyLog) : ~keyLog[i].correct }
Hits == { i \in 1..Len(keyLog) : keyLog[i].correct }

\* miskeys of this load counted per expected character
MissesByExpected ==
  [ c \in { keyLog[i].expected : i \in Misses } |->
      Cardinality({ i \in Misses : keyLog[i].expected = c }) ]

\* miskeys of this load counted per (expected, typed) pair
MissesByPair ==
  [ p \in { keyLog[i].expected \o "→" \o keyLog[i].key : i \in Misses } |->
      Cardinality({ i \in Misses :
                      keyLog[i].expected \o "→" \o keyLog[i].key = p }) ]

\* m[k] || 0
Count(m, k) == IF k \in DOMAIN m THEN m[k] ELSE 0

\* m2 is m with the count of k raised by one and nothing else changed
RaisedAt(m, m2, k) ==
  /\ DOMAIN m2 = DOMAIN m \cup {k}
  /\ m2[k] = Count(m, k) + 1
  /\ \A j \in DOMAIN m \ {k} : m2[j] = m[j]

\* the keys of the onKey calls since the load are the text, in order
TypedPerfectly ==
  /\ Len(keyLog) = Len(testText)
  /\ \A i \in 1..Len(keyLog) : keyLog[i].key = testText[i]

\* ------------------------------------------------------------------ C1
\* C1: after one loadText, whatever keystrokes follow, at most one record
\* is saved to the history store and onComplete is invoked at most once.
C1_FinalizeOnce == saves <= 1 /\ completes <= 1

\* ------------------------------------------------------------------ C2
\* C2: cursor + errors equals the number of keystrokes processed since the
\* last loadText (one onKey call per processed keystroke).
C2_KeystrokeCount == cursor + errors = Len(keyLog)

C2_Witness == cursor = 1 /\ errors = 2 /\ Len(keyLog) = 3

\* ------------------------------------------------------------------ C3
\* C3: loadText never saves a record nor calls onComplete, and the stored
\* history grows only in a handleKey step that moves the cursor from below
\* the text length to the text length.
C3_PersistOnlyOnCompletion ==
  [][ /\ (\E text \in Texts, d \in Gaps : LoadText(text, now + d))
           => (stored' = stored /\ completes' = 0 /\ saves' = 0)
      /\ (stored' # stored)
           => /\ \E key \in Keys, d \in Gaps : HandleKey(key, now + d)
              /\ cursor < Len(testText)
              /\ cursor' = Len(testText) ]_vars

\* ------------------------------------------------------------------ C4
\* C4: a handleKey whose key differs from the expected character keeps the
\* cursor, adds exactly 1 to errors, to errorMap[expected] and to
\* confusions[expected -> key], and changes no other entry of either map.
C4_MiskeyEffect ==
  [][ \A key \in Keys :
        ( /\ cursor < Len(testText)
          /\ key # testText[cursor + 1]
          /\ \E d \in Gaps : HandleKey(key, now + d) )
        => /\ cursor' = cursor
           /\ errors' = errors + 1
           /\ RaisedAt(errorMap, errorMap', testText[cursor + 1])
           /\ RaisedAt(confusions, confusions',
                       testText[cursor + 1] \o "→" \o key) ]_vars

C4_Witness ==
  /\ cursor = 1
  /\ errors = 2
  /\ errorMap = ("b" :> 2)
  /\ confusions = ("b→x" :> 2)

\* ------------------------------------------------------------------ C5
\* C5: after loading a text of length L >= 1 and typing exactly its L
\* characters in order: cursor = L, errors = 0, accuracy = 100.0, one
\* onComplete call and exactly one new stored record.
C5_PerfectRun ==
  (Len(testText) >= 1 /\ TypedPerfectly)
    => /\ cursor = Len(testText)
       /\ errors = 0
       /\ accuracy = 1000
       /\ completes = 1
       /\ saves = 1
       /\ Len(stored) = storedAtLoad + 1

C5_Witness ==
  /\ testText = <<"a", "b">>
  /\ TypedPerfectly
  /\ completes = 1
  /\ storedAtLoad = 1
  /\ Len(stored) = 2

\* ------------------------------------------------------------------ C6
\* C6: with cursor = text length, handleKey changes none of cursor, errors,
\* errorMap, confusions, latencies and makes no callback.
C6_FinishedNoOp ==
  [][ \A key \in Keys :
        ( /\ cursor = Len(testText)
          /\ \E d \in Gaps : HandleKey(key, now + d) )
        => /\ UNCHANGED <<cursor, errors, errorMap, confusions, latencies>>
           /\ calls' = <<>> ]_vars

\* ------------------------------------------------------------------ C7
\* C7: right after any loadText cursor = 0, errors = 0 and errorMap,
\* confusions, timestamps and latencies are all empty.
C7_LoadResets ==
  [][ (\E text \in Texts, d \in Gaps : LoadText(text, now + d))
        => /\ cursor' = 0
           /\ errors' = 0
           /\ errorMap' = EmptyMap
           /\ confusions' = EmptyMap
           /\ timestamps' = <<>>
           /\ latencies' = <<>> ]_vars

\* ------------------------------------------------------------------ C8
\* C8: at the completion of a load the record given to onComplete, and the
\* one put at the front of the history, has length = L, errors = the number
\* of miskeys of this load, accuracy = 100*L/(L+errors) to one decimal, and
\* errorMap and confusions holding the miskey counts of this load only.
RecordOfThisLoad(r) ==
  /\ r.length = Len(testText)
  /\ r.errors = Cardinality(Misses)
  /\ r.accuracy = RoundDiv(1000 * Len(testText),
                           Len(testText) + Cardinality(Misses))
  /\ r.errorMap = MissesByExpected
  /\ r.confusions = MissesByPair

C8_RecordContents ==
  (completes = 1 /\ calls # <<>> /\ Last(calls) = "onComplete")
    => RecordOfThisLoad(lastRecord[1]) /\ RecordOfThisLoad(stored[1])

\* ------------------------------------------------------------------ C9
\* C9: latencies grows only by a correct keystroke that is not the first
\* correct one of the load, by the gap g to the previous correct keystroke,
\* and only if 0 < g < 5000.
C9_LatencySamples ==
  [][ (latencies' # latencies)
        => /\ \E d \in Gaps : HandleKey(expectedChar, now + d)
           /\ timestamps # <<>>
           /\ 0 < now' - Last(timestamps)
           /\ now' - Last(timestamps) < 5000
           /\ latencies' = Append(latencies, now' - Last(timestamps)) ]_vars

\* ----------------------------------------------------------------- C10
\* C10: the number of latency samples is at most the number of correct
\* keystrokes since the last load minus one, and 0 when there is none.
C10_LatencyCount ==
  IF Hits = {} THEN Len(latencies) = 0
  ELSE Len(latencies) <= Cardinality(Hits) - 1

\* ------------------------------------------------------- step predicates
\* the step is a loadText call
LoadStep == \E text \in Texts, d \in Gaps : LoadText(text, now + d)

\* the step is a handleKey(key) call on a non-empty text (a processed key)
KeyStep(key) ==
  Len(testText) > 0 /\ \E d \in Gaps : HandleKey(key, now + d)

\* w is n/d rounded to the nearest integer, a half rounded up
IsRounded(w, n, d) == 2 * (w * d - n) <= d /\ 2 * (w * d - n) > -d

\* positions of x in the sequence s, and "every x comes before every y"
Pos(s, x) == { i \in 1..Len(s) : s[i] = x }
Before(s, x, y) == \A i \in Pos(s, x), j \in Pos(s, y) : i < j

\* ----------------------------------------------------------------- C11
\* C11: always 0 <= cursor <= text length; a step that is not a loadText
\* never lowers the cursor; a handleKey changes it only by +1 and only
\* when the key is the expected character.
C11_Cursor ==
  /\ [](0 <= cursor /\ cursor <= Len(testText))
  /\ [][ /\ ~LoadStep => cursor' >= cursor
         /\ \A key \in Keys :
              (\E d \in Gaps : HandleKey(key, now + d))
                => \/ cursor' = cursor
                   \/ /\ cursor' = cursor + 1
                      /\ cursor < Len(testText)
                      /\ key = testText[cursor + 1] ]_vars

C11_Witness ==
  testText = <<"a", "b">> /\ cursor = 2 /\ errors = 1 /\ completes = 1

\* ----------------------------------------------------------------- C12
\* C12: a processed keystroke calls onKey, onUpdate, onStats once each and
\* in this order; a keystroke that completes the text then saves to the
\* history store and then calls onComplete; onUpdate precedes onStats,
\* onStats precedes onComplete, and the save precedes onComplete.
C12_CallbackOrder ==
  [][ \A key \in Keys :
        KeyStep(key)
          => /\ Len(calls') >= 3
             /\ SubSeq(calls', 1, 3) = <<"onKey", "onUpdate", "onStats">>
             /\ \A x \in {"onKey", "onUpdate", "onStats"} :
                  Cardinality(Pos(calls', x)) = 1
             /\ Before(calls', "onUpdate", "onStats")
             /\ Before(calls', "onStats", "onComplete")
             /\ Before(calls', "saveSession", "onComplete")
             /\ (cursor < Len(testText) /\ cursor' = Len(testText))
                  => calls' = <<"onKey", "onUpdate", "onStats",
                                "saveSession", "onComplete">> ]_vars

C12_Witness ==
  /\ cursor = Len(testText)
  /\ Len(keyLog) = 3
  /\ calls = <<"onKey", "onUpdate", "onStats", "saveSession", "onComplete">>

\* ----------------------------------------------------------------- C13
\* C13: a record handed to onComplete is never changed by a later
\* handleKey or loadText: it always reads as it did when it was handed
\* over, its errorMap and confusions included.
C13_RecordImmutable == held = heldAtCall

\* ----------------------------------------------------------------- C14
\* C14: wpm() is 0 without a correct keystroke since the load, else
\* round((cursor/5) / (elapsed ms to the last correct keystroke / 60000)),
\* and 0 when the elapsed time is 0; the wpm of every session record is a
\* finite non-negative integer.
C14_Wpm ==
  /\ wpm[1] = "num"
  /\ timestamps = <<>> => wpm = Num(0)
  /\ timestamps # <<>> =>
       LET elapsedMs == Last(timestamps) - sessionStart[1]
       IN IF elapsedMs = 0 THEN wpm = Num(0)
          ELSE wpm[2] >= 0 /\ IsRounded(wpm[2], cursor * 12000, elapsedMs)
  /\ lastRecord # Null =>
       lastRecord[1].wpm[1] = "num" /\ lastRecord[1].wpm[2] >= 0

\* ----------------------------------------------------------------- C15
\* C15: accuracy() is 100 when cursor + errors = 0, otherwise
\* cursor/(cursor+errors)*100 rounded to one decimal; always in [0, 100].
C15_Accuracy ==
  /\ accuracy >= 0 /\ accuracy <= 1000
  /\ cursor + errors = 0 => accuracy = 1000
  /\ cursor + errors > 0 =>
       IsRounded(accuracy, 1000 * cursor, cursor + errors)

C15_Witness == cursor = 2 /\ errors = 1 /\ accuracy = 667

\* ----------------------------------------------------------------- C16
\* C16: every loadText and every processed keystroke calls onUpdate once,
\* with one status per character ('correct' below the cursor, 'current' at
\* it, 'pending' above it), the cursor and the length; right after loading
\* a non-empty text index 0 is 'current' and all others are 'pending'.
RenderShowsState ==
  /\ rendered # Null
  /\ rendered[1].cursor = cursor
  /\ rendered[1].total = Len(testText)
  /\ DOMAIN rendered[1].chars = 1..Len(testText)
  /\ \A i \in 1..Len(testText) :
       /\ rendered[1].chars[i].ch = testText[i]
       /\ i - 1 < cursor => rendered[1].chars[i].status = "correct"
       /\ i - 1 = cursor => rendered[1].chars[i].status = "current"
       /\ i - 1 > cursor => rendered[1].chars[i].status = "pending"

RenderShowsFreshText ==
  \A i \in 1..Len(testText) :
    rendered[1].chars[i].status = (IF i = 1 THEN "current" ELSE "pending")

C16_Render ==
  [][ /\ (LoadStep \/ \E key \in Keys : KeyStep(key))
           => Cardinality(Pos(calls', "onUpdate")) = 1 /\ RenderShowsState'
      /\ LoadStep => RenderShowsFreshText' ]_vars

C16_Witness ==
  /\ testText = <<"a", "b">>
  /\ cursor = 1
  /\ Last(calls) = "onStats"
  /\ rendered = Some([ chars  |-> << [ch |-> "a", status |-> "correct"],
                                     [ch |-> "b", status |-> "current"] >>,
                       cursor |-> 1,
                       total  |-> 2 ])

\* the last call on the store was list(limit) / is a list step
Listed(limit) == storeOp = StoreCall("list", limit)

\* ----------------------------------------------------------------- C17
\* C17: after any saveSession and clear calls, list(limit) returns the
\* first min(limit, n) of the n entries saved since the last clear, newest
\* first (so the empty sequence right after a clear).
C17_ListNewestFirst ==
  \A limit \in Limits :
    Listed(limit) =>
      returned = Some(<<"array",
                        SubSeq(appended, 1, Min(limit, Len(appended)))>>)

\* ----------------------------------------------------------------- C18
\* C18: whatever non-array value is held under the storage key (nothing,
\* unparsable text, JSON for an object, a number or a string), list(limit)
\* does not throw and returns the empty sequence.
C18_CorruptStoreIsEmpty ==
  [][ \A limit \in Limits :
        (StoreList(limit) /\ itemKind # "array")
          => ~threw' /\ returned' = Some(<<"array", <<>> >>) ]_vars

\* ----------------------------------------------------------------- C19
\* C19: when the history store's append fails on the completing keystroke,
\* handleKey still returns normally and onComplete is still called with
\* the record, the engine being in the state of a completed session.
CompletingKeyDone ==
  /\ keyLog # <<>>
  /\ Last(keyLog).correct
  /\ cursor = Len(testText)
  /\ calls # <<>>
  /\ calls[1] = "onKey"

C19_StorageFailureContained ==
  CompletingKeyDone
    => ~threw /\ Pos(calls, "onComplete") # {} /\ lastRecord # Null

\* ----------------------------------------------------------------- C20
\* C20: list(limit) and export() leave the stored history as it was, and a
\* list(limit) directly after a list(limit) returns the same result.
C20_ReadsDoNotWrite ==
  [][ /\ ((\E limit \in Limits : StoreList(limit)) \/ StoreExport)
           => stored' = stored /\ itemKind' = itemKind
      /\ \A limit \in Limits :
           (Listed(limit) /\ StoreList(limit)) => returned' = returned ]_vars

C20_Witness ==
  /\ Listed(1)
  /\ Len(stored) = 2
  /\ returned = Some(<<"array", <<stored[1]>> >>)

\* ----------------------------------------------------------------- C21
\* C21: the text returned by export() parses to the full stored list, every
\* record and the newest-first order kept, so that writing the parsed value
\* back and calling list(n) with n >= length gives the sequence list(n)
\* gave before.
Exported == storeOp = StoreCall("export", 0)

C21_ExportRoundTrip ==
  Exported =>
    LET parsed   == JsonParse(returned[1])
        restored == JsonParse(JsonStringify(parsed))
    IN /\ parsed = <<"array", stored>>
       /\ \A n \in Limits :
            n >= Len(stored) => Slice(restored[2], n) = Slice(stored, n)

C21_Witness ==
  /\ Exported
  /\ Len(stored) = 2
  /\ stored[1] # stored[2]
  /\ stored[2].wpm = JsonNull
  /\ JsonParse(returned[1])[2] = stored

\* ------------------------------------- observations of generateSuggestions
\* count of character c in an error map (0 when it has no entry)
CountIn(map, c) ==
  LET at == { i \in 1..Len(OrEmpty(map)) : OrEmpty(map)[i][1] = c }
  IN IF at = {} THEN 0 ELSE OrEmpty(map)[CHOOSE i \in at : TRUE][2]

RECURSIVE HistoryErrors(_, _)
HistoryErrors(sessions, c) ==
  IF sessions = <<>> THEN 0
  ELSE CountIn(sessions[1].errorMap, c) + HistoryErrors(Tail(sessions), c)

\* (history + 1.2 * current) in fiftieths
WeightedErrors(c) ==
  50 * HistoryErrors(historySessions, c) + 60 * CountIn(currentErrorMap, c)

\* the characters with an error in the history or in the current map
ErrorChars == { c \in SuggestChars : WeightedErrors(c) > 0 }

Result == suggested[1].result
ResultChars == { Result[i].char : i \in 1..Len(Result) }
RankOf(c) == CHOOSE i \in 1..Len(Result) : Result[i].char = c

\* ----------------------------------------------------------------- C22
\* C22 as stated: every returned entry has the score
\* (history + 1.2 * current) * f(c) with f(c) = 0.4 for space, tab and
\* newline and 1 for every other character; with equal counts a
\* non-whitespace character ranks strictly above a whitespace character.
C22_ScoreThreeBlanks ==
  suggested # Null =>
    \A i \in 1..Len(Result) :
      Result[i].score =
        IF Result[i].char \in { " ", "\t", "\n" }
        THEN (WeightedErrors(Result[i].char) * 4) \div 10
        ELSE WeightedErrors(Result[i].char)

\* C22 amended: the same with f(c) = 0.4 for every whitespace character
\* (whatever \s matches: space, tab, newline, carriage return, form feed,
\* ...) and 1 otherwise.
C22_Score ==
  suggested # Null =>
    /\ \A i \in 1..Len(Result) :
         Result[i].score =
           IF Result[i].char \in { " ", "\t", "\n", "\r", "\f" }
           THEN (WeightedErrors(Result[i].char) * 4) \div 10
           ELSE WeightedErrors(Result[i].char)
    /\ \A c, w \in ResultChars :
         ( /\ c \notin { " ", "\t", "\n", "\r", "\f" }
           /\ w \in { " ", "\t", "\n", "\r", "\f" }
           /\ WeightedErrors(c) = WeightedErrors(w) )
           => RankOf(c) < RankOf(w)

\* history {t:2}, {t:1} with current {t:2}: the single entry t with 5.4
C22_Witness ==
  /\ suggested # Null
  /\ historySessions = << [errorMap |-> Some(<< <<"t", 2>> >>)],
                          [errorMap |-> Some(<< <<"t", 1>> >>)] >>
  /\ currentErrorMap = Some(<< <<"t", 2>> >>)
  /\ Result = << [char |-> "t", score |-> 270] >>

\* ----------------------------------------------------------------- C23
\* the score the code gives character c, and where c first enters the
\* aggregate: history sessions in order, then the current map
ScoreOf(c) ==
  IF IsWhitespace(c) THEN (WeightedErrors(c) * 4) \div 10
  ELSE WeightedErrors(c)

RECURSIVE AllEntries(_)
AllEntries(sessions) ==
  IF sessions = <<>> THEN <<>>
  ELSE OrEmpty(sessions[1].errorMap) \o AllEntries(Tail(sessions))

Seen == AllEntries(historySessions) \o OrEmpty(currentErrorMap)
FirstSeen(c) ==
  CHOOSE i \in 1..Len(Seen) :
    Seen[i][1] = c /\ \A j \in 1..(i - 1) : Seen[j][1] # c

\* C23: the result has exactly min(max, d) entries, d the number of
\* distinct characters with an error in the history or the current map;
\* scores do not increase along it, no omitted character scores more than
\* a returned one, equal scores keep first-insertion order, and with no
\* error anywhere the result is empty.
C23_Ranking ==
  suggested # Null =>
    /\ Len(Result) = Min(suggested[1].max, Cardinality(ErrorChars))
    /\ ResultChars \subseteq ErrorChars
    /\ Cardinality(ResultChars) = Len(Result)
    /\ \A i, j \in 1..Len(Result) :
         i < j => /\ Result[i].score >= Result[j].score
                  /\ Result[i].score = Result[j].score
                       => FirstSeen(Result[i].char) < FirstSeen(Result[j].char)
    /\ \A c \in ErrorChars \ ResultChars :
         \A i \in 1..Len(Result) :
           /\ ScoreOf(c) <= Result[i].score
           /\ ScoreOf(c) = Result[i].score
                => FirstSeen(Result[i].char) < FirstSeen(c)
    /\ ErrorChars = {} => Result = <<>>

\* three characters with errors, max 2, and a tie kept in insertion order
C23_Witness ==
  /\ suggested # Null
  /\ suggested[1].max = 2
  /\ Cardinality(ErrorChars) = 3
  /\ Len(Result) = 2
  /\ Result[1].score = Result[2].score
  /\ Result[1].char = "\r"
  /\ Result[2].char = " "

\* ----------------------------------------------------------------- C24
\* C24: a call of generateSuggestions changes neither the history records
\* and their error maps nor the current error map, and a call repeated
\* with the same history, current map and max returns the same sequence.
C24_Pure ==
  [][ \A max \in Maxes :
        Suggest(max) =>
          /\ historySessions' = historySessions
          /\ currentErrorMap' = currentErrorMap
          /\ Repeats(max) => suggested'[1].result = suggested[1].result ]_vars

C24_Witness ==
  /\ suggested # Null
  /\ suggested[1].again
  /\ Len(historySessions) = MaxSessions
  /\ currentErrorMap # Null
  /\ Len(Result) > 1

\* ----------------------------------------------------------------- C25
\* C25: on an engine with no text (never loaded, or loaded with the empty
\* string) loadText('') and handleKey return normally, and handleKey
\* changes no engine state, makes no callback, saves no history entry and
\* completes nothing.
C25_NoTextNoOp ==
  [][ /\ \A key \in Keys, d \in Gaps :
           (testText = <<>> /\ HandleKey(key, now + d))
             => /\ ~threw'
                /\ UNCHANGED engineVars
                /\ calls' = <<>>
                /\ rendered' = rendered
                /\ stored' = stored /\ saves' = saves
                /\ completes' = completes /\ lastRecord' = lastRecord
      /\ \A d \in Gaps :
           (testText = <<>> /\ LoadText(<<>>, now + d))
             => ~threw' /\ testText' = <<>> /\ cursor' = 0 ]_vars

\* handleKey has returned on an engine that was loaded with the empty
\* string after an earlier session left latency samples behind
C25_Witness ==
  /\ testText = <<>>
  /\ sessionStart # Null
  /\ calls = <<>>
  /\ latencies # <<>>
  /\ Len(stored) = 1

\* ----------------------------------------------------------------- C26
\* C26: in every reachable state the values of errorMap add up to the
\* error counter and every key of errorMap is a character of the loaded
\* text.
C26_ErrorMapOfText ==
  /\ MapSum(errorMap) = errors
  /\ DOMAIN errorMap \subseteq { testText[i] : i \in 1..Len(testText) }

\* ----------------------------------------------------------------- C27
\* the sample at index k (from 0) of the samples sorted ascending: the
\* value with at most k samples below it and more than k not above it
AtRank(k) ==
  CHOOSE v \in { latencies[i] : i \in 1..Len(latencies) } :
    /\ Cardinality({ i \in 1..Len(latencies) : latencies[i] < v }) <= k
    /\ Cardinality({ i \in 1..Len(latencies) : latencies[i] <= v }) > k

PercentileRank(num) ==
  Min(Len(latencies) - 1, (num * Len(latencies)) \div 100)

MinSample == AtRank(0)
MaxSample == AtRank(Len(latencies) - 1)

\* C27 as stated: latencySummary returns null without samples; otherwise
\* count is the number of samples and p50, p90, p99 are the samples at
\* index min(count-1, floor(p*count)) of the ascending order, so that
\* min sample <= p50 <= p90 <= p99 <= max sample; the sample list is left
\* in its order. (A reported value r, in tenths, is the sample v, in
\* hundredths, when 10 * r = v.)
C27_PercentileIsSample ==
  [][ Summarise =>
        /\ latencies' = latencies
        /\ (latencies = <<>>) = (summary'[1] = Null)
        /\ latencies # <<>> =>
             LET r == summary'[1][1]
             IN /\ r.count = Len(latencies)
                /\ 10 * r.p50 = AtRank(PercentileRank(50))
                /\ 10 * r.p90 = AtRank(PercentileRank(90))
                /\ 10 * r.p99 = AtRank(PercentileRank(99))
                /\ MinSample <= 10 * r.p50
                /\ r.p50 <= r.p90 /\ r.p90 <= r.p99
                /\ 10 * r.p99 <= MaxSample ]_vars

\* C27 amended: the same, each percentile being that sample rounded to one
\* decimal, so that they lie in order between the rounded least and the
\* rounded greatest sample.
C27_Summary ==
  [][ Summarise =>
        /\ latencies' = latencies
        /\ (latencies = <<>>) = (summary'[1] = Null)
        /\ latencies # <<>> =>
             LET r == summary'[1][1]
                 round1(v) == (2 * v + 10) \div 20
             IN /\ r.count = Len(latencies)
                /\ r.p50 = round1(AtRank(PercentileRank(50)))
                /\ r.p90 = round1(AtRank(PercentileRank(90)))
                /\ r.p99 = round1(AtRank(PercentileRank(99)))
                /\ round1(MinSample) <= r.p50
                /\ r.p50 <= r.p90 /\ r.p90 <= r.p99
                /\ r.p99 <= round1(MaxSample) ]_vars

\* a summary of three samples given out of order, the list left as it was
C27_Witness ==
  /\ latencies = <<250, 44, 46>>
  /\ summary = Some(Some([count |-> 3, avg |-> 11, p50 |-> 5,
                          p90 |-> 25, p99 |-> 25]))

\* ----------------------------------------------------------------- C28
\* C28: endDrill on a running drill, whatever keystrokes, Escape or Reset
\* events came since its startDrill, leaves the engine with a fresh session
\* (cursor 0, errors 0) on the text that was active when startDrill was
\* called; startDrill on a running drill or without suggestions, and
\* endDrill without a running drill, change neither the engine text nor
\* the drill flag.
C28_DrillReturns ==
  [][ /\ \A random \in SampleTexts, d \in PageGaps :
           EndDrill(random, now + d) =>
             IF drillActive
             THEN /\ testText' = textAtStartDrill[1]
                  /\ cursor' = 0 /\ errors' = 0
                  /\ ~drillActive'
             ELSE testText' = testText /\ drillActive' = drillActive
      /\ \A d \in PageGaps :
           (StartDrill(now + d) /\ (drillActive \/ suggestionList = <<>>))
             => testText' = testText /\ drillActive' = drillActive ]_vars

\* a drill started on the text 'ab' has ended after a session was completed
\* and another text was loaded during it
C28_Witness ==
  /\ ~drillActive
  /\ textAtStartDrill = Some(<<"a", "b">>)
  /\ testText = <<"a", "b">>
  /\ cursor = 0
  /\ keyLog = <<>>
  /\ engineCall = LoadTextCall
  /\ stored # <<>>
  /\ stored[1].length = 1

\* ----------------------------------------------------------------- C29
\* C29: a keydown event reaches handleKey only when none of meta, ctrl and
\* alt is held and its key is a single character, Enter (handed over as
\* newline) or Tab (handed over as tab); whatever is handed to handleKey is
\* one character long; an Escape event never reaches handleKey and, with no
\* modifier held, calls loadText.
C29_KeysFiltered ==
  [][ \A e \in Events, d \in PageGaps :
        \/ /\ (engineCall' # Null /\ engineCall'[1][1] = "handleKey") =>
                /\ ~e.metaKey /\ ~e.ctrlKey /\ ~e.altKey
                /\ Len(e.key) = 1 \/ e.key \in { "Enter", "Tab" }
                /\ Len(engineCall'[1][2]) = 1
                /\ e.key = "Enter" => engineCall'[1][2] = "\n"
                /\ e.key = "Tab" => engineCall'[1][2] = "\t"
                /\ Len(e.key) = 1 => engineCall'[1][2] = e.key
           /\ e.key = "Escape" =>
                IF e.metaKey \/ e.ctrlKey \/ e.altKey
                THEN engineCall' = Null
                ELSE engineCall' = Some(<<"loadText">>)
        \/ ~KeyDown(e, now + d) ]_vars

\* Enter was pressed and the engine was handed a newline
C29_Witness ==
  /\ engineCall = Some(<<"handleKey", "\n">>)
  /\ keyLog # <<>>
  /\ Last(keyLog).key = "\n"

\* ----------------------------------------------------------------- C30
\* C30: a networkFirst call never rejects: when its fetch resolved it is
\* fulfilled with the network response, and that response is handed to
\* cache.put only if it is ok, so the API cache holds ok responses only;
\* when its fetch rejected it is fulfilled with the cached response of its
\* request if there is one, and otherwise with a 503 response whose body is
\* {offline: true}.
C30_NetworkFirstNeverRejects ==
  /\ \A i \in Invoked :
       LET call == invocations[i]
       IN call.pc = "done" =>
            /\ call.outcome[1].state = "fulfilled"
            /\ call.fetched = "resolved" =>
                 call.outcome[1].value = call.resp
            /\ call.fetched = "rejected" =>
                 /\ call.cached[1] # Null =>
                      call.outcome[1].value = call.cached[1]
                 /\ call.cached[1] = Null =>
                      /\ call.outcome[1].value[1].status = 503
                      /\ call.outcome[1].value[1].body = "{\"offline\":true}"
  /\ \A put \in puts : Ok(put.resp)
  /\ \A request \in Requests :
       apiCache[request] # Null =>
         Ok(apiCache[request][1]) /\ apiCache[request][1].request = request

\* ----------------------------------------------------------------- C31
\* the invocation behind promise i has not settled
Pending(i) == invocations[i].pc # "done"

\* C31: a GET fetch event for a url whose handling promise is pending is
\* answered with that promise and starts no network or cache operation; the
\* inFlight entry of a url is gone as soon as its promise has settled,
\* fulfilled or rejected, so that in every state inFlight holds exactly the
\* pending promises, each under the url of its request.
C31_Dedupe ==
  /\ [][ \A url \in EventUrls :
           (FetchEvent("GET", url) /\ inFlight[url] # Null) =>
             /\ Pending(inFlight[url][1])
             /\ Last(answered').url = url
             /\ Last(answered').promise = inFlight[url][1]
             /\ invocations' = invocations
             /\ puts' = puts /\ apiCache' = apiCache
             /\ inFlight' = inFlight ]_vars
  /\ [](/\ \A url \in EventUrls :
             inFlight[url] # Null =>
               /\ inFlight[url][1] \in Invoked
               /\ Pending(inFlight[url][1])
               /\ invocations[inFlight[url][1]].request = url
        /\ \A i \in Invoked :
             Pending(i) => inFlight[invocations[i].request] = Some(i))

\* three events for one url: the second joined the first promise while it
\* was pending, the third came after that promise had been rejected and
\* started a new one, which is pending
C31_Witness ==
  /\ Len(answered) = 3
  /\ answered[1] = Answer("/api/a", 1)
  /\ answered[2] = Answer("/api/a", 1)
  /\ answered[3] = Answer("/api/a", 2)
  /\ invocations[1].outcome = Some(Rejected)
  /\ inFlight["/api/a"] = Some(2)

\* ----------------------------------------------------------------- C32
\* C32: when the activate handler has completed, no cache is left whose
\* name is not one of the four names of the current version, every such
\* cache it found has been deleted, and none of the four has been deleted:
\* those that existed still exist.
C32_Cleanup ==
  activation.pc = "completed" =>
    /\ cacheNames \subseteq CurrentCaches
    /\ activation.keys \ CurrentCaches \subseteq activation.deleted
    /\ activation.deleted \cap CurrentCaches = {}
    /\ cacheNames = activation.keys \cap CurrentCaches

\* the handler completed after deleting two caches and keeping two
C32_Witness ==
  /\ activation.pc = "completed"
  /\ activation.deleted = { "typeflow-core-v2", "notes" }
  /\ cacheNames = { "typeflow-core-v3", "typeflow-api-v3" }

\* ----------------------------------------------------------------- C33
\* the wpm of a completed session as a number, 0 at least
FiniteBest(list) ==
  LET seen == { list[i].wpm[2] : i \in { j \in 1..Len(list) :
                                           list[j].wpm[1] = "num" } }
              \cup { 0 }
  IN CHOOSE m \in seen : \A v \in seen : v <= m

HasInfinite(list) == \E i \in 1..Len(list) : list[i].wpm = Infinity

\* wpm v is strictly greater than every wpm of the sessions in list
AboveAll(v, list) ==
  /\ ~HasInfinite(list)
  /\ v = Infinity \/ v[2] > FiniteBest(list)

\* C33: when a session completes, 'New Personal Best' is raised if and only
\* if the wpm of its record is strictly greater than the greatest wpm of all
\* sessions saved before it; the record itself, first in the history by
\* then, is left out of the comparison.
C33_PersonalBest ==
  [][ \A record \in Entries :
        CompleteSession(record) =>
          bestToast'[1].raised = AboveAll(record.wpm, appended) ]_vars

\* ----------------------------------------------------------------- C34
\* the request carries the token of this user, with or without 'Bearer '
Carries(auth, user) ==
  auth = <<"Bearer ", TokenOf(user)>> \/ auth = <<TokenOf(user)>>

\* C34: each user's stored list holds the records posted with the user's
\* token, newest first and at most 200 of them, the oldest being dropped
\* when a 201st arrives; GET /api/session/history answers with the at most
\* 50 newest of them in that order.
C34_StoredLists ==
  /\ [](\A user \in Users :
          /\ Len(ListOf(user)) =
               (IF posted[user] < 200 THEN posted[user] ELSE 200)
          /\ \A i \in 1..Len(ListOf(user)) :
               ListOf(user)[i] = [by |-> user, n |-> posted[user] + 1 - i])
  /\ [][ \A auth \in Headers, user \in Users :
           (GetHistory(auth) /\ Carries(auth, user)) =>
             /\ response'.status = 200
             /\ Len(response'.sessions) =
                  (IF Len(ListOf(user)) < 50 THEN Len(ListOf(user)) ELSE 50)
             /\ \A i \in 1..Len(response'.sessions) :
                  response'.sessions[i] = ListOf(user)[i] ]_vars

\* the 201st record has pushed out the first, and the history request was
\* answered with the 50 newest
C34_Witness ==
  /\ posted["a"] = 201
  /\ Len(ListOf("a")) = 200
  /\ ListOf("a")[200].n = 2
  /\ Len(response.sessions) = 50
  /\ response.sessions[1].n = 201
  /\ response.sessions[50].n = 152

\* ----------------------------------------------------------------- C35
NoValidToken(auth) == \A user \in Users : ~Carries(auth, user)

\* C35: POST /api/session and GET /api/session/history without a valid
\* token are answered 401 and change no stored state; a record posted with
\* a user's token is added to that user's list and to no other, every
\* stored list holds its own user's records only, and a history request
\* gets records of the user whose token it carries only.
C35_TokenRequired ==
  /\ [][ \A auth \in Headers :
           /\ \A withRecord \in BOOLEAN :
                (PostSession(auth, withRecord) /\ NoValidToken(auth)) =>
                  /\ response'.status = 401
                  /\ users' = users /\ serverSessions' = serverSessions
           /\ (GetHistory(auth) /\ NoValidToken(auth)) =>
                /\ response'.status = 401 /\ response'.sessions = <<>>
                /\ users' = users /\ serverSessions' = serverSessions
           /\ \A user \in Users :
                /\ (PostSession(auth, TRUE) /\ Carries(auth, user)) =>
                     \A other \in Users \ { user } :
                       serverSessions'[other] = serverSessions[other]
                /\ (GetHistory(auth) /\ Carries(auth, user)) =>
                     \A i \in 1..Len(response'.sessions) :
                       response'.sessions[i].by = user ]_vars
  /\ [](\A user \in Users :
          \A i \in 1..Len(ListOf(user)) : ListOf(user)[i].by = user)

\* both users have records stored, and a request was answered 401
C35_Witness ==
  /\ response.status = 401
  /\ ListOf("a") # <<>>
  /\ ListOf("b") # <<>>

\* ----------------------------------------------------------------- C36
\* C36: a signup for a username that exists is answered 409 and leaves the
\* user's credentials and session list as they were; a signup with a
\* missing field or with passwords that differ is answered 400 and creates
\* no user; a login succeeds exactly when the user exists and the password
\* is the one given at signup.
C36_SignupLogin ==
  [][ /\ \A username \in Fields(Users), password \in Fields(Passwords),
            password2 \in Fields(Passwords) :
           Signup(username, password, password2) =>
             /\ (username # Absent /\ users[username] # Null) =>
                  /\ response'.status = 409
                  /\ users' = users /\ serverSessions' = serverSessions
             /\ (Absent \in { username, password, password2 }
                   \/ password # password2) =>
                  /\ response'.status = 400
                  /\ users' = users
      /\ \A username \in Fields(Users), password \in Fields(Passwords) :
           Login(username, password) =>
             ((response'.status = 200) <=>
                /\ username # Absent
                /\ users[username] # Null
                /\ given[username] = Some(password)) ]_vars

\* ----------------------------------------------------------------- C37
\* the refreshSuggestions calls the timeout of keystroke k has made
Calls(k) == { j \in 1..Len(refreshed) : refreshed[j].id = k }

\* the timeout of keystroke k is set and has neither run nor been cleared
TimerPending(k) == \E x \in timers : x.id = k

====
